---------------------------- MODULE Spec2Model ----------------------------
(***************************************************************************)
(* A model of the SELint policy source analysis engine:                    *)
(*   - policysource/mapping.py : Mapper.get_mapping, expand_rule,          *)
(*     expand_block, get_rule_blocks                                       *)
(*   - plugins/global_macros.py : SetFitter.fit                            *)
(*   - plugins/te_macros.py     : query_for_rule                           *)
(*                                                                         *)
(* Text is modelled as a sequence of symbols.  The punctuation the code    *)
(* looks at (" ", ":", ";", "{", "}", "~", "-", "*", "#", the double       *)
(* quote) is one symbol each; an identifier, a number or a path fragment   *)
(* is one symbol, standing for the run of ordinary characters it is made   *)
(* of.                                                                     *)
(***************************************************************************)
EXTENDS Integers, Sequences, FiniteSets, TLC

(***************************************************************************)
(* Bounds of the model.                                                    *)
(***************************************************************************)
MaxLines == 4

(***************************************************************************)
(* Generic helpers on sequences and sets.                                  *)
(***************************************************************************)
Range(s) == {s[i] : i \in DOMAIN s}

Max(S) == CHOOSE x \in S : \A y \in S : y <= x

Min(S) == CHOOSE x \in S : \A y \in S : x <= y

\* str.count(ch)
Count(s, ch) == Cardinality({i \in DOMAIN s : s[i] = ch})

\* str.startswith(prefix)
StartsWith(s, p) == Len(s) >= Len(p) /\ SubSeq(s, 1, Len(p)) = p

\* str.endswith(suffix)
EndsWith(s, p) == Len(s) >= Len(p) /\ SubSeq(s, Len(s) - Len(p) + 1, Len(s)) = p

\* str.lstrip(chars)
RECURSIVE LStrip(_, _)
LStrip(s, chars) ==
    IF s # <<>> /\ Head(s) \in chars THEN LStrip(Tail(s), chars) ELSE s

\* str.rstrip(chars)
RECURSIVE RStrip(_, _)
RStrip(s, chars) ==
    IF s # <<>> /\ s[Len(s)] \in chars
    THEN RStrip(SubSeq(s, 1, Len(s) - 1), chars)
    ELSE s

\* str.strip(chars)
Strip(s, chars) == LStrip(RStrip(s, chars), chars)

\* str.replace(old, new) for single symbols
Replace(s, old, new) == [i \in DOMAIN s |-> IF s[i] = old THEN new ELSE s[i]]

\* str.split(): the maximal runs of non-blank symbols, in order
RECURSIVE SplitWords(_, _)
SplitWords(s, cur) ==
    IF s = <<>> THEN (IF cur = <<>> THEN <<>> ELSE <<cur>>)
    ELSE IF Head(s) = " "
         THEN (IF cur = <<>> THEN <<>> ELSE <<cur>>) \o SplitWords(Tail(s), <<>>)
         ELSE SplitWords(Tail(s), Append(cur, Head(s)))

Split(s) == SplitWords(s, <<>>)

\* " ".join(words)
RECURSIVE Join(_)
Join(ws) ==
    IF ws = <<>> THEN <<>>
    ELSE IF Len(ws) = 1 THEN ws[1]
    ELSE ws[1] \o <<" ">> \o Join(Tail(ws))

\* " ".join(names) for a list of one-symbol names
RECURSIVE JoinNames(_)
JoinNames(ns) ==
    IF ns = <<>> THEN <<>>
    ELSE IF Len(ns) = 1 THEN <<ns[1]>>
    ELSE <<ns[1], " ">> \o JoinNames(Tail(ns))

\* The first index of ch in s, 0 when absent (str.find + 1)
Find(s, ch) ==
    IF \E i \in DOMAIN s : s[i] = ch
    THEN Min({i \in DOMAIN s : s[i] = ch})
    ELSE 0

(***************************************************************************)
(* The identifiers of the modelled policy, in the order Python compares    *)
(* strings; sorted() lists a set of them by this order.                    *)
(***************************************************************************)
NameOrder ==
    <<"a", "append", "at", "b", "d", "file", "fork", "getattr", "ioctl",
      "lock", "nocls", "open", "process", "read", "self", "signal", "t",
      "write">>

Rank(n) == CHOOSE i \in DOMAIN NameOrder : NameOrder[i] = n

RECURSIVE Sorted(_)
Sorted(S) ==
    IF S = {} THEN <<>>
    ELSE LET m == CHOOSE x \in S : \A y \in S : Rank(x) <= Rank(y)
         IN  <<m>> \o Sorted(S \ {m})

(***************************************************************************)
(* mapping.py: module constants and the tables a Mapper is built with.     *)
(***************************************************************************)
ONLY_MAP_RULES == {"allow", "auditallow", "dontaudit", "neverallow", "type_transition"}

AVRULES == {"allow", "auditallow", "dontaudit", "neverallow"}

TERULES == {"type_transition", "type_change", "type_member", "typebounds"}

\* Mapper.complementable: the symbols that begin with a letter, plus "{"
NotComplementable == {" ", ":", ";", "}", "~", "-", "*", "#", "\""}

complementable(c) == c \notin NotComplementable

\* self.types
types == {"a", "b", "d", "t"}

\* self.attributes
attributes == [at |-> {"a", "b"}]

\* self.classes
classes == [file |-> {"read", "write", "open"}, process |-> {"signal", "fork"}]

(***************************************************************************)
(* Mapper.get_rule_blocks: the character scan that splits a rule into      *)
(* blocks.  The scan state is [nest_lvl, block, blocks,                    *)
(* complement_next_block, err]; err is "" or the exception raised.         *)
(***************************************************************************)
\* The scan step with the brackets opened inside a bracket pair kept in the
\* block instead of dropped
ScanStepKeepNested(st, char) ==
    IF st.err # "" THEN st
    ELSE IF st.complement_next_block /\ ~complementable(char)
    THEN [st EXCEPT !.err = "ValueError"]
    ELSE IF char = "~"
    THEN IF st.nest_lvl # 0
         THEN [st EXCEPT !.err = "ValueError"]
         ELSE [st EXCEPT !.complement_next_block = TRUE]
    ELSE IF char = "{"
    THEN IF st.nest_lvl + 1 = 1
         THEN [st EXCEPT
                 !.nest_lvl = 1,
                 !.blocks = IF st.block # <<>>
                            THEN Append(st.blocks, Strip(st.block, {" "}))
                            ELSE st.blocks,
                 !.block = IF st.complement_next_block
                           THEN <<"~", "{">> ELSE <<"{">>,
                 !.complement_next_block = FALSE]
         ELSE [st EXCEPT !.nest_lvl = st.nest_lvl + 1,
                         !.block = Append(st.block, "{")]
    ELSE IF char = "}"
    THEN IF st.nest_lvl > 0
         THEN IF st.nest_lvl - 1 = 0
              THEN [st EXCEPT
                      !.nest_lvl = 0,
                      !.blocks = Append(st.blocks, Append(st.block, "}")),
                      !.block = <<>>]
              ELSE [st EXCEPT !.nest_lvl = st.nest_lvl - 1]
         ELSE [st EXCEPT !.err = "ValueError"]
    ELSE IF st.nest_lvl > 0
    THEN IF char # " " \/ ~EndsWith(st.block, <<" ">>)
         THEN [st EXCEPT !.block = Append(st.block, char)]
         ELSE st
    ELSE IF char = " "
    THEN IF st.block # <<>>
         THEN [st EXCEPT
                 !.blocks = Append(st.blocks, Strip(st.block, {" "})),
                 !.block = <<>>]
         ELSE st
    ELSE IF st.complement_next_block
    THEN [st EXCEPT !.block = <<"~", char>>, !.complement_next_block = FALSE]
    ELSE [st EXCEPT !.block = Append(st.block, char)]

\* The body of the loop over the characters of the rule
ScanStep(st, char) ==
    IF st.err # "" THEN st
    ELSE IF st.complement_next_block /\ ~complementable(char)
    THEN [st EXCEPT !.err = "ValueError"]
    ELSE IF char = "~"
    THEN IF st.nest_lvl # 0
         THEN [st EXCEPT !.err = "ValueError"]
         ELSE [st EXCEPT !.complement_next_block = TRUE]
    ELSE IF char = "{"
    THEN IF st.nest_lvl + 1 = 1
         THEN [st EXCEPT
                 !.nest_lvl = 1,
                 !.blocks = IF st.block # <<>>
                            THEN Append(st.blocks, Strip(st.block, {" "}))
                            ELSE st.blocks,
                 !.block = IF st.complement_next_block
                           THEN <<"~", "{">> ELSE <<"{">>,
                 !.complement_next_block = FALSE]
         ELSE [st EXCEPT !.nest_lvl = st.nest_lvl + 1]
    ELSE IF char = "}"
    THEN IF st.nest_lvl > 0
         THEN IF st.nest_lvl - 1 = 0
              THEN [st EXCEPT
                      !.nest_lvl = 0,
                      !.blocks = Append(st.blocks, Append(st.block, "}")),
                      !.block = <<>>]
              ELSE [st EXCEPT !.nest_lvl = st.nest_lvl - 1]
         ELSE [st EXCEPT !.err = "ValueError"]
    ELSE IF st.nest_lvl > 0
    THEN IF char # " " \/ ~EndsWith(st.block, <<" ">>)
         THEN [st EXCEPT !.block = Append(st.block, char)]
         ELSE st
    ELSE IF char = " "
    THEN IF st.block # <<>>
         THEN [st EXCEPT
                 !.blocks = Append(st.blocks, Strip(st.block, {" "})),
                 !.block = <<>>]
         ELSE st
    ELSE IF st.complement_next_block
    THEN [st EXCEPT !.block = <<"~", char>>, !.complement_next_block = FALSE]
    ELSE [st EXCEPT !.block = Append(st.block, char)]

RECURSIVE Scan(_, _)
Scan(st, s) == IF s = <<>> THEN st ELSE Scan(ScanStep(st, Head(s)), Tail(s))

\* Returns [err, blocks]
get_rule_blocks(rule) ==
    IF Count(rule, "{") # Count(rule, "}")
    THEN [err |-> "ValueError", blocks |-> <<>>]
    ELSE IF Find(rule, " ") = 0
    THEN [err |-> "ValueError", blocks |-> <<>>]
    ELSE LET sp == Find(rule, " ")
             rule_type == SubSeq(rule, 1, sp - 1)
             rule_early_split == SubSeq(rule, sp + 1, Len(rule))
             st0 == [nest_lvl |-> 0, block |-> <<>>, blocks |-> <<rule_type>>,
                     complement_next_block |-> FALSE, err |-> ""]
             st == Scan(st0, Replace(RStrip(rule_early_split, {";"}), ":", " "))
         IN  IF st.err # ""
             THEN [err |-> st.err, blocks |-> <<>>]
             ELSE [err |-> "",
                   blocks |-> IF st.block # <<>>
                              THEN Append(st.blocks, Strip(st.block, {" "}))
                              ELSE st.blocks]


(***************************************************************************)
(* Mapper.expand_block.  A word is a sequence of symbols; the options      *)
(* returned are words.  Returns [err, options].                            *)
(***************************************************************************)
\* "word in self.attributes"
IsAttribute(word) == Len(word) = 1 /\ word[1] \in DOMAIN attributes

\* self.attributes[word], as a set of words
AttributeTypes(word) == {<<x>> : x \in attributes[word[1]]}

IsClass(word) == Len(word) = 1 /\ word[1] \in DOMAIN classes

\* sorted() of a set of one-symbol words
SortedWords(S) ==
    LET names == Sorted({w[1] : w \in S})
    IN  [i \in DOMAIN names |-> <<names[i]>>]

\* A loop over the words that subtracts a "-" word from what has been added
\* so far instead of collecting it
RECURSIVE ComplexBlockEager(_, _, _)
ComplexBlockEager(words, role, acc) ==
    IF words = <<>> THEN acc
    ELSE LET word == Head(words)
             name == LStrip(word, {"-"})
             next ==
                 IF StartsWith(word, <<"-">>)
                 THEN [acc EXCEPT !.add =
                          (IF role = "type" /\ IsAttribute(name)
                           THEN acc.add \ AttributeTypes(name)
                           ELSE acc.add) \ {name}]
                 ELSE [acc EXCEPT !.add =
                          (IF role = "type" /\ IsAttribute(word)
                           THEN acc.add \cup AttributeTypes(word)
                           ELSE acc.add) \cup {word}]
         IN  ComplexBlockEager(Tail(words), role, next)

\* The loop over the words of a "{ ... }" block: acc is [add, remove]
RECURSIVE ComplexBlock(_, _, _)
ComplexBlock(words, role, acc) ==
    IF words = <<>> THEN acc
    ELSE LET word == Head(words)
             name == LStrip(word, {"-"})
             next ==
                 IF StartsWith(word, <<"-">>)
                 THEN [acc EXCEPT !.remove =
                          (IF role = "type" /\ IsAttribute(name)
                           THEN acc.remove \cup AttributeTypes(name)
                           ELSE acc.remove) \cup {name}]
                 ELSE [acc EXCEPT !.add =
                          (IF role = "type" /\ IsAttribute(word)
                           THEN acc.add \cup AttributeTypes(word)
                           ELSE acc.add) \cup {word}]
         IN  ComplexBlock(Tail(words), role, next)

\* A complement block that forgets to strip the complement sign
ComplementRemoveKeepSign(block) == Range(Split(Strip(block, {"{", "}"})))

\* remove = set(block.strip("~{}").split())
ComplementRemove(block) == Range(Split(Strip(block, {"~", "{", "}"})))

expand_block(block, role, for_class) ==
    IF role \notin {"type", "class", "perms"}
    THEN [err |-> "ValueError", options |-> <<>>]
    ELSE IF StartsWith(block, <<"{">>)
    THEN LET words == Split(Strip(block, {"{", "}"}))
             acc == ComplexBlock(words, role, [add |-> {}, remove |-> {}])
         IN  [err |-> "", options |-> SortedWords(acc.add \ acc.remove)]
    ELSE IF StartsWith(block, <<"~">>) \/ block = <<"*">>
    THEN LET remove == ComplementRemove(block)
         IN  IF role = "type"
             THEN [err |-> "",
                   options |-> SortedWords({<<x>> : x \in types} \ remove)]
             ELSE IF role = "class"
             THEN [err |-> "",
                   options |-> SortedWords({<<x>> : x \in DOMAIN classes} \ remove)]
             ELSE IF role = "perms" /\ for_class # <<>>
             THEN IF IsClass(for_class)
                  THEN [err |-> "",
                        options |-> SortedWords(
                            {<<x>> : x \in classes[for_class[1]]} \ remove)]
                  ELSE [err |-> "KeyError", options |-> <<>>]
             ELSE [err |-> "ValueError", options |-> <<>>]
    ELSE IF role = "type" /\ IsAttribute(block)
    THEN [err |-> "", options |-> SortedWords(AttributeTypes(block) \cup {block})]
    ELSE [err |-> "", options |-> <<block>>]

(***************************************************************************)
(* Mapper.__expand_avrule, __expand_terule and expand_rule.  A rule        *)
(* dictionary {base: full} is a set of pairs <<base, full>>, one per base. *)
(* Each returns [err, rules].                                              *)
(***************************************************************************)
\* base = rtype + " " + sub + " " + obj + ":" + cls
Base(rtype, sub, obj, cls) == rtype \o <<" ">> \o sub \o <<" ">> \o obj \o <<":">> \o cls

\* The permission string built for one class: [err, permstr]
PermStr(block, cls) ==
    LET perms == expand_block(block, "perms", cls)
    IN  IF perms.err # "" THEN [err |-> perms.err, permstr |-> <<>>]
        ELSE IF Len(perms.options) > 1
        THEN [err |-> "",
              permstr |-> <<"{", " ">> \o Join(perms.options) \o <<" ", "}">>]
        ELSE IF Len(perms.options) = 0
        THEN [err |-> "IndexError", permstr |-> <<>>]
        ELSE [err |-> "", permstr |-> perms.options[1]]

\* The outer "for cls in classes" loop: stops at the first exception
RECURSIVE AvLoop(_, _, _, _, _, _)
AvLoop(clss, rtype, subjects, objects, permblock, rules) ==
    IF clss = <<>> THEN [err |-> "", rules |-> rules]
    ELSE LET cls == Head(clss)
             p == PermStr(permblock, cls)
             new ==
                 IF <<"self">> \in Range(objects)
                 THEN {<<Base(rtype, subjects[i], subjects[i], cls),
                         Base(rtype, subjects[i], subjects[i], cls)
                             \o <<" ">> \o p.permstr \o <<";">> >> :
                       i \in DOMAIN subjects}
                 ELSE {<<Base(rtype, subjects[ij[1]], objects[ij[2]], cls),
                         Base(rtype, subjects[ij[1]], objects[ij[2]], cls)
                             \o <<" ">> \o p.permstr \o <<";">> >> :
                       ij \in (DOMAIN subjects) \X (DOMAIN objects)}
         IN  IF p.err # "" THEN [err |-> p.err, rules |-> {}]
             ELSE AvLoop(Tail(clss), rtype, subjects, objects, permblock,
                         {r \in rules : \A n \in new : n[1] # r[1]} \cup new)

expand_avrule(blocks) ==
    IF Len(blocks) # 5 THEN [err |-> "ValueError", rules |-> {}]
    ELSE LET subjects == expand_block(blocks[2], "type", <<>>).options
             objects == expand_block(blocks[3], "type", <<>>).options
             clss == expand_block(blocks[4], "class", <<>>).options
         IN  AvLoop(clss, blocks[1], subjects, objects, blocks[5], {})

expand_terule(blocks) ==
    IF Len(blocks) \notin {5, 6} THEN [err |-> "ValueError", rules |-> {}]
    ELSE LET add == IF Len(blocks) = 6
                    THEN blocks[5] \o <<" ">> \o blocks[6] \o <<";">>
                    ELSE blocks[5] \o <<";">>
             subjects == expand_block(blocks[2], "type", <<>>).options
             objects == expand_block(blocks[3], "type", <<>>).options
             clss == expand_block(blocks[4], "class", <<>>).options
         IN  [err |-> "",
              rules |-> {<<Base(blocks[1], subjects[ijk[1]], objects[ijk[2]], clss[ijk[3]]),
                           Base(blocks[1], subjects[ijk[1]], objects[ijk[2]], clss[ijk[3]])
                               \o <<" ">> \o add>> :
                         ijk \in (DOMAIN subjects) \X (DOMAIN objects) \X (DOMAIN clss)}]

\* rule.startswith(self.supported_rules)
IsSupported(rule) == rule # <<>> /\ rule[1] \in ONLY_MAP_RULES

expand_rule(rule) ==
    IF ~IsSupported(rule) THEN [err |-> "ValueError", rules |-> {}]
    ELSE LET b == get_rule_blocks(rule)
         IN  IF b.err # "" THEN [err |-> b.err, rules |-> {}]
             ELSE IF b.blocks[1] \in {<<x>> : x \in AVRULES}
             THEN expand_avrule(b.blocks)
             ELSE IF b.blocks[1] \in {<<x>> : x \in TERULES}
             THEN expand_terule(b.blocks)
             ELSE [err |-> "ValueError", rules |-> {}]


(***************************************************************************)
(* Numerals: str(n) and int(s) for the line numbers of the model.          *)
(***************************************************************************)
Numerals == <<"0", "1", "2", "3", "4", "5", "6", "7", "8", "9", "10", "11", "12">>

Str(n) == Numerals[n + 1]

ToInt(s) == (CHOOSE i \in DOMAIN Numerals : Numerals[i] = s) - 1

(***************************************************************************)
(* The lines a policy.conf of the model is made of.                        *)
(***************************************************************************)
SyncFile(f) == <<"#", "line", " ", "1", " ", "\"", f, "\"">>

SyncLine(n) == <<"#", "line", " ", Str(n)>>

AllowReadLine == <<"allow", " ", "d", " ", "t", ":", "file", " ", "read", ";">>

AllowWriteLine == <<"allow", " ", "d", " ", "t", ":", "file", " ", "write", ";">>

TwoRulesLine == AllowReadLine \o <<" ">> \o AllowWriteLine

SelfLine ==
    <<"allow", " ", "{", "a", " ", "b", "}", " ", "self", ":", "process", " ",
      "signal", ";">>

SelfSetLine ==
    <<"allow", " ", "{", "a", " ", "b", "}", " ", "{", "self", " ", "t", "}",
      ":", "process", " ", "signal", ";">>

TeSelfLine ==
    <<"type_transition", " ", "a", " ", "self", ":", "process", " ", "b", ";">>

TeLine ==
    <<"type_transition", " ", "at", " ", "t", ":", "{", "file", " ", "process",
      "}", " ", "d", ";">>

EmptyPermsLine ==
    <<"allow", " ", "a", " ", "b", ":", "file", " ", "{", "read", " ", "-",
      "read", "}", ";">>

NoClassLine == <<"allow", " ", "a", " ", "b", ":", "nocls", " ", "*", ";">>

BadCountLine == <<"allow", " ", "a", " ", "b", ":", "file", ";">>

BadComplementLine ==
    <<"allow", " ", "a", " ", "~", " ", "b", ":", "file", " ", "read", ";">>

MismatchLine ==
    <<"allow", " ", "a", " ", "{", " ", "b", ":", "file", " ", "read", ";">>

PartialLine == <<"allow", " ", "d", " ", "t", ":", "file", " ">>

BlankLine == <<>>

FileLines ==
    {SyncFile("a.te"), SyncFile("b.te"), SyncLine(5), BlankLine,
     AllowReadLine, AllowWriteLine, TwoRulesLine, SelfLine, SelfSetLine,
     TeSelfLine, TeLine, EmptyPermsLine, NoClassLine, BadCountLine,
     BadComplementLine, MismatchLine, PartialLine}

(***************************************************************************)
(* Mapper.get_mapping: one action per line of policy.conf.                 *)
(***************************************************************************)
VARIABLES
    mapping_rules,              \* RUTC -> list of MappedRule [rule, fileline]
    mapping_lines,              \* "file:line" -> original rule
    group,                      \* the lines of the rule being read
    current_file,
    current_line,
    previous_line_is_syncline,
    pc,                         \* "running", "crashed" (uncaught exception), "done"
    nread,                      \* number of lines read
    last,                       \* what the last iteration of the loop did
    sync                        \* the sync lines of the text read so far

mapvars ==
    <<mapping_rules, mapping_lines, group, current_file, current_line,
      previous_line_is_syncline, pc, nread, last, sync>>

\* line.startswith('#line ')
IsSyncText(line) == StartsWith(line, <<"#", "line", " ">>)

\* line.startswith('#line 1 "')
IsNewFileText(line) == StartsWith(line, <<"#", "line", " ", "1", " ", "\"">>)

\* current_file + ":" + str(current_line)
FileLineStr(f, l) == <<f, ":", Str(l)>>

\* line.split("#")[0]
BeforeHash(line) ==
    IF Find(line, "#") = 0 THEN line ELSE SubSeq(line, 1, Find(line, "#") - 1)

\* sum(len(v) for v in mapping_rules.values())
RECURSIVE TotalLen(_)
TotalLen(m) ==
    IF DOMAIN m = {} THEN 0
    ELSE LET k == CHOOSE x \in DOMAIN m : TRUE
         IN  Len(m[k]) + TotalLen([x \in DOMAIN m \ {k} |-> m[x]])

\* The text-level record of sync lines: what the most recent sync line of
\* the text set, and how many non-sync lines followed it
SyncAfter(line) ==
    IF IsNewFileText(line)
    THEN [seen |-> TRUE, file |-> line[7], n |-> 1, k |-> 0]
    ELSE IF IsSyncText(line)
    THEN [seen |-> TRUE, file |-> sync.file, n |-> ToInt(line[4]), k |-> 0]
    ELSE [sync EXCEPT !.k = sync.k + 1]

NoRule(n, line) ==
    [n |-> n, text |-> line, rule |-> <<>>, err |-> "", fileline |-> <<>>,
     keys |-> {}, appended |-> 0]

InitMap ==
    /\ mapping_rules = <<>>
    /\ mapping_lines = <<>>
    /\ group = <<>>
    /\ current_file = ""
    /\ current_line = 0
    /\ previous_line_is_syncline = FALSE
    /\ pc = "running"
    /\ nread = 0
    /\ last = NoRule(0, <<>>)
    /\ sync = [seen |-> FALSE, file |-> "", n |-> 0, k |-> 0]

\* The rest of the loop body for a line that is not taken as a sync line
ProcessText(line0) ==
    LET line1 == Strip(line0, {" "})
        line == IF Find(line1, "#") # 0 THEN Strip(BeforeHash(line1), {" "}) ELSE line1
        group1 == Append(group, line)
        original_rule == Join(Split(Join(group1)))
        exp == expand_rule(original_rule)
        tmp == FileLineStr(current_file', current_line')
        keys == {r[1] : r \in exp.rules}
        full(k) == (CHOOSE r \in exp.rules : r[1] = k)[2]
    IN  IF line1 = <<>> \/ StartsWith(line1, <<"#">>)
        THEN /\ UNCHANGED <<mapping_rules, mapping_lines, group, pc>>
             /\ last' = NoRule(nread', line0)
        ELSE IF group = <<>> /\ ~IsSupported(line1)
        THEN /\ UNCHANGED <<mapping_rules, mapping_lines, group, pc>>
             /\ last' = NoRule(nread', line0)
        ELSE IF ~EndsWith(line, <<";">>)
        THEN /\ group' = group1
             /\ UNCHANGED <<mapping_rules, mapping_lines, pc>>
             /\ last' = NoRule(nread', line0)
        ELSE IF exp.err = "ValueError"
        THEN /\ group' = <<>>
             /\ UNCHANGED <<mapping_rules, mapping_lines, pc>>
             /\ last' = [NoRule(nread', line0) EXCEPT
                            !.rule = original_rule, !.err = exp.err, !.fileline = tmp]
        ELSE IF exp.err # ""
        THEN \* an exception get_mapping does not catch
             /\ pc' = "crashed"
             /\ UNCHANGED <<mapping_rules, mapping_lines, group>>
             /\ last' = [NoRule(nread', line0) EXCEPT
                            !.rule = original_rule, !.err = exp.err, !.fileline = tmp]
        ELSE /\ mapping_lines' =
                    [k \in DOMAIN mapping_lines \cup {tmp} |->
                        IF k = tmp THEN original_rule ELSE mapping_lines[k]]
             /\ mapping_rules' =
                    [k \in DOMAIN mapping_rules \cup keys |->
                        IF k \in keys
                        THEN Append(IF k \in DOMAIN mapping_rules
                                    THEN mapping_rules[k] ELSE <<>>,
                                    [rule |-> full(k), fileline |-> tmp])
                        ELSE mapping_rules[k]]
             /\ group' = <<>>
             /\ UNCHANGED pc
             /\ last' = [n |-> nread', text |-> line0, rule |-> original_rule,
                         err |-> "", fileline |-> tmp, keys |-> keys,
                         appended |-> TotalLen(mapping_rules') - TotalLen(mapping_rules)]

ReadLine(line) ==
    /\ pc = "running"
    /\ nread < MaxLines
    /\ nread' = nread + 1
    /\ sync' = SyncAfter(line)
    /\ IF ~previous_line_is_syncline /\ IsNewFileText(line)
       THEN /\ current_file' = line[7]
            /\ current_line' = 1
            /\ previous_line_is_syncline' = TRUE
            /\ last' = NoRule(nread', line)
            /\ UNCHANGED <<mapping_rules, mapping_lines, group, pc>>
       ELSE IF ~previous_line_is_syncline /\ IsSyncText(line)
       THEN /\ current_line' = ToInt(line[4])
            /\ previous_line_is_syncline' = TRUE
            /\ last' = NoRule(nread', line)
            /\ UNCHANGED <<mapping_rules, mapping_lines, group, pc, current_file>>
       ELSE /\ current_line' =
                  IF ~previous_line_is_syncline THEN current_line + 1 ELSE current_line
            /\ current_file' = current_file
            /\ previous_line_is_syncline' = FALSE
            /\ ProcessText(line)

\* The end of policy.conf: return Mapping(mapping_rules, mapping_lines)
ReturnMapping ==
    /\ pc = "running"
    /\ pc' = "done"
    /\ UNCHANGED <<mapping_rules, mapping_lines, group, current_file,
                   current_line, previous_line_is_syncline, nread, last, sync>>


(***************************************************************************)
(* expand_block applied to one block.  The inputs are drawn at the start:  *)
(* a role, the class of a permission block, and a block written from a     *)
(* list of distinct atoms, each with or without a leading "-".             *)
(***************************************************************************)
MaxAtoms == 3

VARIABLES
    blk_in,         \* [kind, role, for_class, atoms, block]
    blk_out,        \* the value expand_block returned
    blk_pc          \* "idle", "call", "done"

blkvars == <<blk_in, blk_out, blk_pc>>

\* The atoms a block of each role is written with
RoleAtoms(role) ==
    IF role = "type" THEN {"a", "b", "t", "at"}
    ELSE IF role = "class" THEN {"file", "process"}
    ELSE {"read", "write", "open"}

SignedAtoms(role) == [neg : BOOLEAN, name : RoleAtoms(role)]

\* Lists of at most n distinct elements of S
DistinctSeqs(S, n) ==
    UNION {{q \in [1..m -> S] : \A i, j \in 1..m : i # j => q[i] # q[j]} : m \in 1..n}

AtomWord(at) == IF at.neg THEN <<"-", at.name>> ELSE <<at.name>>

\* "{ w1 w2 ... }"
SetBlockText(atoms) ==
    <<"{", " ">> \o Join([i \in DOMAIN atoms |-> AtomWord(atoms[i])]) \o <<" ", "}">>

\* "~w" for one atom, "~{ w1 w2 ... }" otherwise
ComplementBlockText(atoms, braces) ==
    IF braces
    THEN <<"~", "{", " ">> \o Join([i \in DOMAIN atoms |-> AtomWord(atoms[i])]) \o <<" ", "}">>
    ELSE <<"~">> \o AtomWord(atoms[1])

BlockInputs ==
    UNION {
        {[kind |-> "set", role |-> role,
          for_class |-> IF role = "perms" THEN <<"file">> ELSE <<>>,
          atoms |-> q, block |-> SetBlockText(q)] :
            q \in DistinctSeqs(SignedAtoms(role), MaxAtoms)}
        \cup
        {[kind |-> "complement", role |-> role,
          for_class |-> IF role = "perms" THEN <<"file">> ELSE <<>>,
          atoms |-> q, block |-> ComplementBlockText(q, br)] :
            q \in DistinctSeqs([neg : {FALSE}, name : RoleAtoms(role)], MaxAtoms - 1),
            br \in {TRUE}}
        \cup
        {[kind |-> "complement", role |-> role,
          for_class |-> IF role = "perms" THEN <<"file">> ELSE <<>>,
          atoms |-> q, block |-> ComplementBlockText(q, FALSE)] :
            q \in DistinctSeqs([neg : {FALSE}, name : RoleAtoms(role)], 1)}
      : role \in {"type", "class", "perms"}}

BlkIdle == blk_in = <<>> /\ blk_out = <<>> /\ blk_pc = "idle"

InitBlock ==
    /\ blk_in \in BlockInputs
    /\ blk_out = <<>>
    /\ blk_pc = "call"

ExpandBlock ==
    /\ blk_pc = "call"
    /\ blk_out' = expand_block(blk_in.block, blk_in.role, blk_in.for_class)
    /\ blk_pc' = "done"
    /\ UNCHANGED blk_in


(***************************************************************************)
(* plugins/global_macros.py: SetFitter.  A score is kept as the fraction   *)
(* <<nonzero, len(tally)>>.                                                *)
(***************************************************************************)
\* SetFitter.RichSet.__init__
RichSet(name, values) ==
    [name |-> name, values |-> values, tally |-> [e \in values |-> 0],
     nonzero |-> 0, score |-> <<0, 1>>]

\* SetFitter.RichSet.incr
incr(rs, elem) ==
    IF elem \in DOMAIN rs.tally
    THEN IF rs.tally[elem] = 0
         THEN [rs EXCEPT !.nonzero = rs.nonzero + 1,
                         !.score = <<rs.nonzero + 1, Cardinality(DOMAIN rs.tally)>>,
                         !.tally[elem] = 1]
         ELSE [rs EXCEPT !.tally[elem] = rs.tally[elem] + 1]
    ELSE rs

\* x.score == 1
ScoreIsOne(rs) == rs.score[1] = rs.score[2]

\* "for elem in s: for each in rich_sets: each.incr(elem)"
RECURSIVE Tally(_, _)
Tally(rich_sets, s) ==
    IF s = {} THEN rich_sets
    ELSE LET elem == CHOOSE e \in s : TRUE
         IN  Tally([i \in DOMAIN rich_sets |-> incr(rich_sets[i], elem)], s \ {elem})

\* itertools.combinations(range(from, n + 1), k), as a list of index tuples
RECURSIVE Combinations(_, _, _)
Combinations(from, n, k) ==
    IF k = 0 THEN << <<>> >>
    ELSE IF from > n THEN <<>>
    ELSE LET rest == Combinations(from + 1, n, k - 1)
         IN  [i \in DOMAIN rest |-> <<from>> \o rest[i]]
             \o Combinations(from + 1, n, k)

\* "for i in range(1, len(ones) + 1): combinations.extend(...)"
RECURSIVE AllCombinations(_, _)
AllCombinations(n, i) ==
    IF i > n THEN <<>>
    ELSE Combinations(1, n, i) \o AllCombinations(n, i + 1)

\* The loop that indexes the combinations by the size of the extra set
RECURSIVE ExtraDim(_, _, _, _)
ExtraDim(combinations, ones, s, extra_dim) ==
    IF combinations = <<>> THEN extra_dim
    ELSE LET c == {ones[i] : i \in Range(Head(combinations))}
             c_set == UNION {x.values : x \in c}
             extra == s \ c_set
             n == Cardinality(extra)
         IN  ExtraDim(Tail(combinations), ones, s,
                      [k \in DOMAIN extra_dim \cup {n} |->
                          IF k = n
                          THEN Append(IF n \in DOMAIN extra_dim
                                      THEN extra_dim[n] ELSE <<>>, c)
                          ELSE extra_dim[k]])

\* A choice of the largest extra set instead of the smallest
BestExtraMax(extra_dim) == Max(DOMAIN extra_dim)

\* m = min(extra_dim)
BestExtra(extra_dim) == Min(DOMAIN extra_dim)

\* min(list, key=len): the first of the shortest members
MinByLen(list) ==
    LET best == Min({Cardinality(list[i]) : i \in DOMAIN list})
        first == Min({i \in DOMAIN list : Cardinality(list[i]) = best})
    IN  list[first]

\* SetFitter.fit: d is the dictionary, order the order in which it is
\* iterated.  Returns [winner, part] as sets of RichSets.
fit(d, order, s) ==
    LET rich_sets == Tally([i \in DOMAIN order |-> RichSet(order[i], d[order[i]])], s)
        IsOne(x) == ScoreIsOne(x)
        ones == SelectSeq(rich_sets, IsOne)
        NotOne(x) == ~ScoreIsOne(x)
        part == SelectSeq(rich_sets, NotOne)
        combinations == AllCombinations(Len(ones), 1)
        extra_dim == ExtraDim(combinations, ones, s, <<>>)
    IN  [winner |-> IF DOMAIN extra_dim # {}
                    THEN MinByLen(extra_dim[BestExtra(extra_dim)])
                    ELSE {},
         part |-> part]

(***************************************************************************)
(* SetFitter.fit applied to one target set.  The inputs are drawn at the   *)
(* start: the dictionary of permission macros, the order in which the      *)
(* dictionary is iterated, and the target set.                             *)
(***************************************************************************)
MaxMacros == 3

MacroNames == <<"r", "w", "x", "y", "z">>

r_file_perms == {"getattr", "open", "read", "ioctl", "lock"}

w_file_perms == {"open", "append", "write"}

MacroSets == {r_file_perms, w_file_perms, {"open"}, {"read", "write"}, {}}

TargetSets ==
    {r_file_perms \cup w_file_perms, w_file_perms, {"open", "read"},
     {"read", "write", "open", "lock"}, {"write"}}

VARIABLES
    fit_d,          \* SetFitter.d
    fit_order,      \* iteration order of SetFitter.d
    fit_s,          \* the set to fit
    fit_out,        \* the value fit returned
    fit_pc          \* "idle", "call", "done"

fitvars == <<fit_d, fit_order, fit_s, fit_out, fit_pc>>

FitIdle ==
    fit_d = <<>> /\ fit_order = <<>> /\ fit_s = {} /\ fit_out = <<>> /\ fit_pc = "idle"

InitFit ==
    /\ \E names \in SUBSET {MacroNames[i] : i \in 1..MaxMacros} :
          /\ fit_d \in [names -> MacroSets]
          /\ fit_order \in {q \in [1..Cardinality(names) -> names] :
                              \A i, j \in DOMAIN q : i # j => q[i] # q[j]}
    /\ fit_s \in TargetSets
    /\ fit_out = <<>>
    /\ fit_pc = "call"

Fit ==
    /\ fit_pc = "call"
    /\ fit_out' = fit(fit_d, fit_order, fit_s)
    /\ fit_pc' = "done"
    /\ UNCHANGED <<fit_d, fit_order, fit_s>>


(***************************************************************************)
(* plugins/te_macros.py: query_for_rule.                                   *)
(***************************************************************************)
\* VALID_ARG_R, the regex that stands for a macro argument
VALID_ARG_R == "[a-zA-Z0-9_-]+"

\* AVRule.__init__ / TERule.__init__ as called by Mapper.rule_factory:
\* returns [err, rule]
rule_factory(string) ==
    LET FromBlocks(b) ==
            LET blocks == b.blocks
            IN  IF b.err # "" THEN [err |-> b.err, rule |-> <<>>]
                ELSE IF blocks[1] \in {<<x>> : x \in AVRULES}
                THEN IF Len(blocks) # 5 \/ \E i \in DOMAIN blocks : blocks[i] = <<>>
                     THEN [err |-> "ValueError", rule |-> <<>>]
                     ELSE [err |-> "",
                           rule |-> [rtype |-> blocks[1], source |-> blocks[2],
                                     target |-> blocks[3], tclass |-> blocks[4],
                                     perms |-> blocks[5],
                                     permset |-> Range(Split(Strip(blocks[5], {"{", "}"})))]]
                ELSE IF blocks[1] \in {<<x>> : x \in TERULES}
                THEN IF Len(blocks) \notin {5, 6} \/ \E i \in DOMAIN blocks : blocks[i] = <<>>
                     THEN [err |-> "ValueError", rule |-> <<>>]
                     ELSE [err |-> "",
                           rule |-> [rtype |-> blocks[1], source |-> blocks[2],
                                     target |-> blocks[3], tclass |-> blocks[4],
                                     deftype |-> blocks[5]]]
                ELSE [err |-> "ValueError", rule |-> <<>>]
    IN  IF ~IsSupported(string) THEN [err |-> "ValueError", rule |-> <<>>]
        ELSE FromBlocks(get_rule_blocks(string))

\* AVRule.up_to_class / TERule.up_to_class
up_to_class(rule) == Base(rule.rtype, rule.source, rule.target, rule.tclass)

\* Mapper.rule_split_after_class: (rutc, tail) of a rule with a single class
rule_split_after_class(string) ==
    LET colon == Find(string, ":")
        after == SubSeq(string, colon + 1, Len(string))
        sp == Find(after, " ")
    IN  IF colon = 0 \/ sp = 0 \/ StartsWith(after, <<"{">>)
        THEN [err |-> "ValueError", rutc |-> <<>>, tail |-> <<>>]
        ELSE [err |-> "",
              rutc |-> SubSeq(string, 1, colon + sp - 1),
              tail |-> SubSeq(after, sp + 1, Len(after))]

\* fileline.startswith(FULL_IGNORE_PATHS)
StartsWithAny(fileline, paths) == \E p \in paths : StartsWith(fileline, p)

\* str(x) of a rule of the compiled policy
RuleStr(x) ==
    IF x.rtype \in AVRULES
    THEN Base(<<x.rtype>>, <<x.source>>, <<x.target>>, <<x.tclass>>) \o <<" ">>
         \o (IF Cardinality(x.perms) > 1
             THEN <<"{", " ">> \o JoinNames(Sorted(x.perms)) \o <<" ", "}">>
             ELSE JoinNames(Sorted(x.perms)))
         \o <<";">>
    ELSE Base(<<x.rtype>>, <<x.source>>, <<x.target>>, <<x.tclass>>)
         \o <<" ", x.default, ";">>

\* A field of a TERuleQuery against a value: a regex field holding
\* VALID_ARG_R matches every identifier, any other field matches itself
FieldMatches(field, is_regex, value) ==
    IF is_regex /\ field = VALID_ARG_R THEN TRUE ELSE field = value

\* TERuleQuery(...).results() for the query built from the placeholder r
QueryResults(policy_rules, r) ==
    LET sr == r.source = VALID_ARG_R
        tr == r.target = VALID_ARG_R \/ r.target = "self"
        xtarget == IF r.target = "self" THEN VALID_ARG_R ELSE r.target
        cr == r.tclass = VALID_ARG_R
        Match(x) ==
            /\ x.rtype = r.rtype
            /\ FieldMatches(r.source, sr, x.source)
            /\ FieldMatches(xtarget, tr, x.target)
            /\ FieldMatches(r.tclass, cr, x.tclass)
            /\ IF r.rtype \in AVRULES
               THEN r.permset \subseteq x.perms
               ELSE FieldMatches(r.deftype, r.deftype = VALID_ARG_R, x.default)
    IN  SelectSeq(policy_rules, Match)

\* "for each in rls" of the AV branch: acc is [tmpset, nim]
RECURSIVE AvOrigins(_, _, _, _)
AvOrigins(rls, x_str, ignore, acc) ==
    IF rls = <<>> THEN acc
    ELSE LET each == Head(rls)
             prmstr == rule_split_after_class(each.rule).tail
             perms == Range(Split(Strip(prmstr, {" ", "{", "}", ";"})))
             next ==
                 IF ~StartsWithAny(each.fileline, ignore)
                 THEN [tmpset |-> acc.tmpset \cup perms,
                       nim |-> [k \in DOMAIN acc.nim \cup {x_str} |->
                                   IF k = x_str
                                   THEN Append(IF x_str \in DOMAIN acc.nim
                                               THEN acc.nim[x_str] ELSE <<>>,
                                               each.fileline)
                                   ELSE acc.nim[k]]]
                 ELSE acc
         IN  AvOrigins(Tail(rls), x_str, ignore, next)

\* "for each in rls" of the TE branch: acc is [filtered, nim]
RECURSIVE TeOrigins(_, _, _, _, _)
TeOrigins(rls, x, x_str, ignore, acc) ==
    IF rls = <<>> THEN acc
    ELSE LET each == Head(rls)
             next ==
                 IF ~StartsWithAny(each.fileline, ignore)
                 THEN [filtered |-> Append(acc.filtered, x),
                       nim |-> [k \in DOMAIN acc.nim \cup {x_str} |->
                                   IF k = x_str
                                   THEN Append(IF x_str \in DOMAIN acc.nim
                                               THEN acc.nim[x_str] ELSE <<>>,
                                               each.fileline)
                                   ELSE acc.nim[k]]]
                 ELSE acc
         IN  TeOrigins(Tail(rls), x, x_str, ignore, next)

\* A check against the permissions of the placeholder rule instead
CoveredSetQueried(rule, r) == {<<p>> : p \in r.permset}

\* "tmpset >= rule.permset": the set the non-ignored origins must cover
CoveredSet(rule, r) == rule.permset

\* "for x in results": acc is [filtered, nim]
RECURSIVE FilterResults(_, _, _, _, _)
FilterResults(results, r, mapping, ignore, acc) ==
    IF results = <<>> THEN acc
    ELSE LET x == Head(results)
             Filtered(x_str, rule, rls, av) ==
                 IF Len(rls) = 1
                 THEN IF ~StartsWithAny(rls[1].fileline, ignore)
                      THEN [filtered |-> Append(acc.filtered, x),
                            nim |-> [k \in DOMAIN acc.nim \cup {x_str} |->
                                        IF k = x_str THEN <<rls[1].fileline>>
                                        ELSE acc.nim[k]]]
                      ELSE acc
                 ELSE IF rule.rtype \in {<<t>> : t \in AVRULES}
                 THEN IF CoveredSet(rule, r) \subseteq av.tmpset
                      THEN [filtered |-> Append(acc.filtered, x), nim |-> av.nim]
                      ELSE [filtered |-> acc.filtered,
                            nim |-> [k \in DOMAIN av.nim \ {x_str} |-> av.nim[k]]]
                 ELSE IF rule.rtype \in {<<t>> : t \in TERULES}
                 THEN TeOrigins(rls, x, x_str, ignore, acc)
                 ELSE acc
             \* rls = self.mapper.rules[rutc], then the loop of the AV branch
             ByOrigins(x_str, rule, rls) ==
                 Filtered(x_str, rule, rls,
                          AvOrigins(rls, x_str, ignore,
                                    [tmpset |-> {}, nim |-> acc.nim]))
             \* rule = rule_factory(x_str); rutc = rule.up_to_class
             Looked(x_str, rule) == ByOrigins(x_str, rule, mapping[up_to_class(rule)])
             Parsed(x_str) == Looked(x_str, rule_factory(x_str).rule)
         IN  FilterResults(Tail(results), r, mapping, ignore, Parsed(RuleStr(x)))

\* query_for_rule(policy, r): returns [filtered, nim], the filtered results
\* and the new value of NON_IGNORED_MAPPING
query_for_rule(policy_rules, mapping, r, ignore, nim) ==
    LET all == QueryResults(policy_rules, r)
        SourceIsTarget(x) == x.source = x.target
        results == IF r.target = "self" THEN SelectSeq(all, SourceIsTarget) ELSE all
    IN  FilterResults(results, r, mapping, ignore, [filtered |-> <<>>, nim |-> nim])


(***************************************************************************)
(* query_for_rule applied to one placeholder rule.  The inputs are drawn   *)
(* at the start: the rule x of the compiled policy, the placeholder rule   *)
(* r, and the origins the mapping records for the RUTC of x.               *)
(***************************************************************************)
MaxOrigins == 2

\* FULL_IGNORE_PATHS = os.path.join(FULL_BASE_DIR, p) for p in RULE_IGNORE_PATHS
FULL_IGNORE_PATHS == {<<"/base/", "external/sepolicy">>}

\* A file under the ignore path, a file in a sibling directory whose name
\* begins with the name of the ignored directory, and a file elsewhere
IgnoredFile == <<"/base/", "external/sepolicy", "/", "x.te">>

SiblingFile == <<"/base/", "external/sepolicy", "_vendor", "/", "z.te">>

DeviceFile == <<"/base/", "device", "/", "y.te">>

OriginFiles == {IgnoredFile, SiblingFile, DeviceFile}

QueryPermSets == {{"read"}, {"write"}, {"read", "write"}}

Origins == UNION {[1..m -> [file : OriginFiles, perms : QueryPermSets]] : m \in 1..MaxOrigins}

\* The MappedRule the mapping holds for origin o of the policy rule x
OriginRule(x, o) ==
    [rule |-> RuleStr([x EXCEPT !.perms = o.perms]),
     fileline |-> o.file \o <<":", "1">>]

VARIABLES
    q_in,           \* [x, r, origins, policy_rules, mapping]
    q_nim,          \* NON_IGNORED_MAPPING
    q_out,          \* the list query_for_rule returned
    q_pc            \* "idle", "call", "done"

qvars == <<q_in, q_nim, q_out, q_pc>>

QIdle == q_in = <<>> /\ q_nim = <<>> /\ q_out = <<>> /\ q_pc = "idle"

InitQuery ==
    /\ \E rtype \in {"allow", "type_transition"}, xt \in {"a", "b"},
          px \in QueryPermSets, rt \in {"self", VALID_ARG_R},
          q \in QueryPermSets, origins \in Origins :
          LET x == [rtype |-> rtype, source |-> "a", target |-> xt,
                    tclass |-> "file", perms |-> px, default |-> "d"]
              r == [rtype |-> rtype, source |-> VALID_ARG_R, target |-> rt,
                    tclass |-> "file", permset |-> q, deftype |-> VALID_ARG_R]
          IN  q_in = [x |-> x, r |-> r, origins |-> origins,
                      policy_rules |-> <<x>>,
                      mapping |-> (Base(<<rtype>>, <<"a">>, <<xt>>, <<"file">>) :>
                                      [i \in DOMAIN origins |-> OriginRule(x, origins[i])])]
    /\ q_nim = <<>>
    /\ q_out = <<>>
    /\ q_pc = "call"

QueryForRule ==
    /\ q_pc = "call"
    /\ LET res == query_for_rule(q_in.policy_rules, q_in.mapping, q_in.r,
                                 FULL_IGNORE_PATHS, q_nim)
       IN  /\ q_out' = res.filtered
           /\ q_nim' = res.nim
    /\ q_pc' = "done"
    /\ UNCHANGED q_in

(***************************************************************************)
(* te_macros.py: ArgExtractor.  A placeholder rule is a rule text whose    *)
(* placeholders @@ARGn@@ are one symbol each; every other symbol of an     *)
(* identifier is one character.  A policy rule handed to the extractor is  *)
(* a record [ruletype, source, target, tclass, perms, default, filename]   *)
(* whose identifiers are words and whose filename is <<>> when the rule    *)
(* has no such attribute.                                                  *)
(***************************************************************************)
\* placeholder_r = r"@@ARG[0-9]+@@"
Placeholders == {"@@ARG0@@", "@@ARG1@@"}

\* "(" + VALID_ARG_R + ")": the group a placeholder is replaced by
GroupR == "([a-zA-Z0-9_-]+)"

\* x.strip("@").lower()
ArgName(p) == IF p = "@@ARG0@@" THEN "arg0" ELSE "arg1"

\* re.sub(self.placeholder_r, "(" + VALID_ARG_R + ")", self.rule)
SubGroups(rule) ==
    [i \in DOMAIN rule |-> IF rule[i] \in Placeholders THEN GroupR ELSE rule[i]]

\* Mapper.rule_parser, reached through the class with the regex as string
rule_parser(string) ==
    IF IsSupported(string) THEN get_rule_blocks(string)
    ELSE [err |-> "ValueError", blocks |-> <<>>]

\* re.findall(self.placeholder_r, self.rule), stripped and lowered
ArgsOf(rule) ==
    LET IsPlaceholder(c) == c \in Placeholders
        found == SelectSeq(rule, IsPlaceholder)
    IN  [i \in DOMAIN found |-> ArgName(found[i])]

\* ArgExtractor.__init__: [rule, regex_blocks, regex_perms, args]
ArgExtractor(rule) ==
    LET Built(blocks) ==
            [rule |-> rule,
             regex_blocks |-> blocks,
             regex_perms |->
                 IF blocks[1] \in {<<t>> : t \in AVRULES}
                 THEN IF \E i \in DOMAIN blocks[5] : blocks[5][i] \in {"{", "}"}
                      THEN Range(Split(Strip(blocks[5], {"{", "}"})))
                      ELSE {blocks[5]}
                 ELSE {},
             args |-> ArgsOf(rule)]
    IN  Built(rule_parser(SubGroups(rule)).blocks)

\* blk in self.regex_blocks_c: the block was compiled because it holds a group
Compiled(blk) == \E i \in DOMAIN blk : blk[i] = GroupR

\* Whether the regex pat matches at the start of s (re.match is not anchored
\* at the end); a group takes one or more characters
RECURSIVE MatchesPrefix(_, _)
MatchesPrefix(pat, s) ==
    IF pat = <<>> THEN TRUE
    ELSE IF Head(pat) = GroupR
    THEN \E n \in 1..Len(s) : MatchesPrefix(Tail(pat), SubSeq(s, n + 1, Len(s)))
    ELSE s # <<>> /\ Head(s) = Head(pat) /\ MatchesPrefix(Tail(pat), Tail(s))

\* The captures of the groups of pat on s, a greedy group taking the most
\* characters that let the rest of the regex match
RECURSIVE Groups(_, _)
Groups(pat, s) ==
    IF pat = <<>> THEN <<>>
    ELSE IF Head(pat) = GroupR
    THEN LET n == Max({k \in 1..Len(s) :
                          MatchesPrefix(Tail(pat), SubSeq(s, k + 1, Len(s)))})
         IN  <<SubSeq(s, 1, n)>> \o Groups(Tail(pat), SubSeq(s, n + 1, Len(s)))
    ELSE Groups(Tail(pat), Tail(s))

\* m = regex.match(text); m.group(1): [ok, g]
ReMatch(blk, text) ==
    IF MatchesPrefix(blk, text)
    THEN [ok |-> TRUE, g |-> Groups(blk, text)[1]]
    ELSE [ok |-> FALSE, g |-> <<>>]

\* One block of match_rule: the regex block blk against the text of the
\* rule; acc is [ok, matches].  A compiled block appends group 1, any other
\* block is compared as a string
MatchBlock(blk, text, acc) ==
    IF ~acc.ok THEN acc
    ELSE IF Compiled(blk)
    THEN LET Matched(m) ==
                 IF m.ok THEN [ok |-> TRUE, matches |-> Append(acc.matches, m.g)]
                 ELSE [ok |-> FALSE, matches |-> <<>>]
         IN  Matched(ReMatch(blk, text))
    ELSE IF text # blk THEN [ok |-> FALSE, matches |-> <<>>]
    ELSE acc

\* Block 2 (target): a literal "self" in the placeholder rule also accepts
\* a target equal to the source
MatchTarget(blk, rule, acc) ==
    IF ~acc.ok THEN acc
    ELSE IF Compiled(blk) THEN MatchBlock(blk, rule.target, acc)
    ELSE IF blk = <<"self">> /\ rule.target # <<"self">>
    THEN IF rule.target # rule.source
         THEN [ok |-> FALSE, matches |-> <<>>] ELSE acc
    ELSE IF rule.target # blk THEN [ok |-> FALSE, matches |-> <<>>]
    ELSE acc

\* Block 4: the permission set of an AV rule, the default type of a
\* type_transition
MatchVariable(e, rule, acc) ==
    IF ~acc.ok THEN acc
    ELSE IF rule.ruletype \in AVRULES
    THEN IF ~(e.regex_perms \subseteq {<<p>> : p \in rule.perms})
         THEN [ok |-> FALSE, matches |-> <<>>] ELSE acc
    ELSE IF rule.ruletype = "type_transition"
    THEN MatchBlock(e.regex_blocks[5], rule.default, acc)
    ELSE acc

\* Block 5: the object name of a name transition
MatchObjname(e, rule, acc) ==
    IF ~acc.ok THEN acc
    ELSE IF rule.ruletype = "type_transition" /\ Len(e.regex_blocks) = 6
    THEN IF Compiled(e.regex_blocks[6])
         THEN MatchBlock(e.regex_blocks[6], rule.filename, acc)
         ELSE IF Strip(rule.filename, {"\""}) # Strip(e.regex_blocks[6], {"\""})
         THEN [ok |-> FALSE, matches |-> <<>>] ELSE acc
    ELSE acc

\* ArgExtractor.match_rule: [ok, matches]; ok is FALSE where the code
\* returns None
match_rule(e, rule) ==
    IF rule.ruletype = "type_transition" /\ Len(e.regex_blocks) = 6
       /\ rule.filename = <<>>
    THEN [ok |-> FALSE, matches |-> <<>>]
    ELSE IF rule.ruletype # "type_transition" /\ rule.ruletype \notin AVRULES
    THEN [ok |-> FALSE, matches |-> <<>>]
    ELSE IF <<rule.ruletype>> # e.regex_blocks[1]
    THEN [ok |-> FALSE, matches |-> <<>>]
    ELSE MatchObjname(e, rule,
           MatchVariable(e, rule,
             MatchBlock(e.regex_blocks[4], <<rule.tclass>>,
               MatchTarget(e.regex_blocks[3], rule,
                 MatchBlock(e.regex_blocks[2], rule.source,
                            [ok |-> TRUE, matches |-> <<>>])))))

\* The loop of extract over the matches: acc is [err, retdict]
RECURSIVE ExtractLoop(_, _, _, _)
ExtractLoop(args, matches, i, acc) ==
    IF i > Len(matches) THEN acc
    ELSE IF args[i] \in DOMAIN acc.retdict
    THEN IF acc.retdict[args[i]] # matches[i]
         THEN [err |-> "ValueError", retdict |-> <<>>]
         ELSE ExtractLoop(args, matches, i + 1, acc)
    ELSE ExtractLoop(args, matches, i + 1,
             [acc EXCEPT !.retdict =
                 [a \in DOMAIN acc.retdict \cup {args[i]} |->
                     IF a = args[i] THEN matches[i] ELSE acc.retdict[a]]])

\* ArgExtractor.extract: [err, retdict]; an empty list of matches is false
\* in "if matches"
extract(e, rule) ==
    LET Extracted(m) ==
            IF m.ok /\ m.matches # <<>>
            THEN ExtractLoop(e.args, m.matches, 1, [err |-> "", retdict |-> <<>>])
            ELSE [err |-> "ValueError", retdict |-> <<>>]
    IN  Extracted(match_rule(e, rule))

(***************************************************************************)
(* ArgExtractor(placeholder rule).extract(rule) on the placeholder rules   *)
(* and policy rules of the model.                                          *)
(***************************************************************************)
MaxIdLen == 4

\* allow $1 $1_x:file read;
PhSame ==
    <<"allow", " ", "@@ARG0@@", " ", "@@ARG0@@", "_", "x", ":", "file", " ",
      "read", ";">>

\* allow $1 $2:file { read write };
PhTwo ==
    <<"allow", " ", "@@ARG0@@", " ", "@@ARG1@@", ":", "file", " ",
      "{", " ", "read", " ", "write", " ", "}", ";">>

\* allow $1_$2 $2:file read;
PhPair ==
    <<"allow", " ", "@@ARG0@@", "_", "@@ARG1@@", " ", "@@ARG1@@", ":", "file",
      " ", "read", ";">>

\* allow a b:file read;
PhNone == <<"allow", " ", "a", " ", "b", ":", "file", " ", "read", ";">>

\* type_transition $1 $2:file $1_x;
PhTe ==
    <<"type_transition", " ", "@@ARG0@@", " ", "@@ARG1@@", ":", "file", " ",
      "@@ARG0@@", "_", "x", ";">>

PlaceholderRules == {PhSame, PhTwo, PhPair, PhNone, PhTe}

\* The type names of the policy rules, one character per symbol
Idents ==
    {w \in {<<"a">>, <<"b">>, <<"a", "_", "x">>, <<"b", "_", "x">>,
            <<"a", "_", "b">>, <<"a", "_", "x", "y">>,
            <<"a", "_", "x", "_", "x">>} : Len(w) <= MaxIdLen}

\* The rules of the compiled policy the extractor is given
PolicyRules ==
    {[ruletype |-> "allow", source |-> s, target |-> t, tclass |-> "file",
      perms |-> p, default |-> <<>>, filename |-> <<>>] :
        s \in Idents, t \in Idents, p \in {{"read"}, {"read", "write"}}}
    \cup
    {[ruletype |-> "type_transition", source |-> s, target |-> t,
      tclass |-> "file", perms |-> {}, default |-> d, filename |-> <<>>] :
        s \in {<<"a">>, <<"b">>}, t \in {<<"a">>, <<"b">>}, d \in Idents}

VARIABLES
    ext_in,         \* [placeholder, rule]
    ext_out,        \* [err, retdict] of extract
    ext_pc          \* "idle", "call", "done"

extvars == <<ext_in, ext_out, ext_pc>>

ExtIdle == ext_in = <<>> /\ ext_out = <<>> /\ ext_pc = "idle"

InitExtract ==
    /\ \E ph \in PlaceholderRules, rule \in PolicyRules :
          ext_in = [placeholder |-> ph, rule |-> rule]
    /\ ext_out = <<>>
    /\ ext_pc = "call"

Extract ==
    /\ ext_pc = "call"
    /\ ext_out' = extract(ArgExtractor(ext_in.placeholder), ext_in.rule)
    /\ ext_pc' = "done"
    /\ UNCHANGED ext_in

(***************************************************************************)
(* te_macros.py: MacroSuggestion.  A suggestion is a record [macro, rules, *)
(* rules_strings, args, score]: _rules and _rules_strings are dictionaries *)
(* keyed by placeholder rule, _args is keyed by "argN", and the score is   *)
(* kept as the fraction [n, d].  A macro is [name, nargs,                  *)
(* placeholder_rules]; order is the order in which the dictionaries keyed  *)
(* by placeholder rule are iterated.                                       *)
(***************************************************************************)
\* str(rule) of a rule of the compiled policy
StrOfRule(rule) ==
    IF rule.ruletype \in AVRULES
    THEN Base(<<rule.ruletype>>, rule.source, rule.target, <<rule.tclass>>)
         \o <<" ">>
         \o (IF Cardinality(rule.perms) > 1
             THEN <<"{", " ">> \o JoinNames(Sorted(rule.perms)) \o <<" ", "}">>
             ELSE JoinNames(Sorted(rule.perms)))
         \o <<";">>
    ELSE Base(<<rule.ruletype>>, rule.source, rule.target, <<rule.tclass>>)
         \o <<" ">> \o rule.default \o <<";">>

\* MacroSuggestion.__init__
NewSuggestion(macro) ==
    [macro |-> macro, rules |-> <<>>, rules_strings |-> <<>>, args |-> <<>>,
     score |-> [n |-> 0, d |-> 1]]

\* dict[k] = v
Put(dict, k, v) == [x \in DOMAIN dict \cup {k} |-> IF x = k THEN v ELSE dict[x]]

\* self.args.update(args)
Update(dict, other) ==
    [x \in DOMAIN dict \cup DOMAIN other |->
        IF x \in DOMAIN other THEN other[x] ELSE dict[x]]

\* A score that is the ratio of matched rules alone
ScoreOfRulesOnly(rules, args, macro) ==
    [n |-> Cardinality(DOMAIN rules), d |-> Len(macro.placeholder_rules)]

\* The score add_rule stores: len(rules) / len(placeholder rules) times
\* len(args) / nargs, as a fraction
ScoreOf(rules, args, macro) ==
    [n |-> Cardinality(DOMAIN rules) * Cardinality(DOMAIN args),
     d |-> Len(macro.placeholder_rules) * macro.nargs]

\* The body of add_rule once an extractor accepted the rule for a free
\* slot r with arguments args
Accept(sug, r, rule, args) ==
    IF \E a \in DOMAIN args : a \in DOMAIN sug.args /\ args[a] # sug.args[a]
    THEN [err |-> "ValueError", sug |-> sug]
    ELSE [err |-> "",
          sug |-> [sug EXCEPT
                     !.rules = Put(sug.rules, r, rule),
                     !.rules_strings = Put(sug.rules_strings, r, StrOfRule(rule)),
                     !.args = Update(sug.args, args),
                     !.score = ScoreOf(Put(sug.rules, r, rule),
                                       Update(sug.args, args), sug.macro)]]

\* "for r, e in self._extractors.iteritems()" from position i of order
RECURSIVE AddLoop(_, _, _, _, _)
AddLoop(sug, rule, order, i, already_taken) ==
    IF i > Len(order)
    THEN [err |-> IF already_taken THEN "ValueError" ELSE "RuntimeError",
          sug |-> sug]
    ELSE LET Tried(r, ex) ==
                 IF ex.err # "" THEN AddLoop(sug, rule, order, i + 1, already_taken)
                 ELSE IF r \in DOMAIN sug.rules
                 THEN AddLoop(sug, rule, order, i + 1, TRUE)
                 ELSE Accept(sug, r, rule, ex.retdict)
         IN  Tried(order[i], extract(ArgExtractor(order[i]), rule))

\* MacroSuggestion.add_rule: [err, sug]
add_rule(sug, rule, order) == AddLoop(sug, rule, order, 1, FALSE)

\* "for r in self.rules" of fork_and_fit: the old rules are added back,
\* a ValueError is passed over
RECURSIVE AddBack(_, _, _)
AddBack(new, old, order) ==
    IF old = <<>> THEN new
    ELSE AddBack(add_rule(new, Head(old), order).sug, Tail(old), order)

\* self._rules.values() in the iteration order of the dictionary
RulesOf(sug, order) ==
    LET Filled(r) == r \in DOMAIN sug.rules
        slots == SelectSeq(order, Filled)
    IN  [i \in DOMAIN slots |-> sug.rules[slots[i]]]

\* MacroSuggestion.fork_and_fit: [none, sug]
fork_and_fit(sug, rule, order) ==
    LET Forked(first) ==
            IF first.err = "RuntimeError"
            THEN [none |-> TRUE, sug |-> NewSuggestion(sug.macro)]
            ELSE [none |-> FALSE,
                  sug |-> AddBack(first.sug, RulesOf(sug, order), order)]
    IN  Forked(add_rule(NewSuggestion(sug.macro), rule, order))

\* MacroSuggestion.usage: the macro name and the arguments in order
usage(sug) ==
    <<sug.macro.name>> \o
    [i \in 1..sug.macro.nargs |->
        IF ArgName(<<"@@ARG0@@", "@@ARG1@@">>[i]) \in DOMAIN sug.args
        THEN sug.args[ArgName(<<"@@ARG0@@", "@@ARG1@@">>[i])]
        ELSE <<"<MISSING_ARG>">>]

\* MacroSuggestion.__eq__
SugEq(x, y) ==
    x.macro.name = y.macro.name /\ DOMAIN x.rules_strings = DOMAIN y.rules_strings

\* MacroSuggestion.__lt__: set(dict) is the set of the keys of the dict
SugLt(x, y) ==
    DOMAIN x.rules_strings \subseteq DOMAIN y.rules_strings
    /\ DOMAIN x.rules_strings # DOMAIN y.rules_strings

\* x in S for a set of suggestions: same hash (that of the usage), then ==
SugIn(x, S) == \E y \in S : usage(y) = usage(x) /\ SugEq(x, y)

\* S.add(x)
SugAdd(S, x) == IF SugIn(x, S) THEN S ELSE S \cup {x}

(***************************************************************************)
(* te_macros.main: the fitting loop of one macro, the discarding of the    *)
(* suggestions that come from macro expansions, and the de-duplication of  *)
(* the suggestions of all macros.                                          *)
(***************************************************************************)
\* SUGGESTION_THRESHOLD = 0.8
SUGGESTION_THRESHOLD == [n |-> 4, d |-> 5]

\* score >= threshold, for fractions with positive denominators
ScoreGe(s, t) == s.n * t.d >= t.n * s.d

\* x.score <= y.score
ScoreLe(x, y) == x.n * y.d <= y.n * x.d

\* The rules the queries for the placeholder rules return, one query after
\* the other: the rules of the policy that satisfy the regexes of the query
RECURSIVE OverallRules(_, _)
OverallRules(policy, placeholder_rules) ==
    IF placeholder_rules = <<>> THEN <<>>
    ELSE LET Matching(x) == match_rule(ArgExtractor(Head(placeholder_rules)), x).ok
         IN  SelectSeq(policy, Matching) \o OverallRules(policy, Tail(placeholder_rules))

\* The iteration without the test on tried_usages: a fork is queued whenever
\* it is in neither set
TryRuleAnyUsage(st, rule, order, selected, pending) ==
    LET Mismatch(f) ==
            IF ~f.none /\ ~SugIn(f.sug, selected) /\ ~SugIn(f.sug, pending)
            THEN [st EXCEPT !.newsugs = SugAdd(st.newsugs, f.sug),
                            !.tried_usages = st.tried_usages \cup {usage(f.sug)}]
            ELSE st
        Added(res) ==
            IF res.err = "ValueError"
            THEN Mismatch(fork_and_fit(st.sug, rule, order))
            ELSE IF res.err = "RuntimeError"
            THEN [st EXCEPT !.removal_candidates = st.removal_candidates \cup {rule}]
            ELSE [st EXCEPT !.sug = res.sug,
                            !.tried_usages = st.tried_usages \cup {usage(res.sug)}]
    IN  Added(add_rule(st.sug, rule, order))

\* One iteration of "for rule in overall_rules"; st is
\* [sug, newsugs, removal_candidates, tried_usages]
TryRule(st, rule, order, selected, pending) ==
    LET Mismatch(f) ==
            IF ~f.none /\ usage(f.sug) \notin st.tried_usages
               /\ ~SugIn(f.sug, selected) /\ ~SugIn(f.sug, pending)
            THEN [st EXCEPT !.newsugs = SugAdd(st.newsugs, f.sug),
                            !.tried_usages = st.tried_usages \cup {usage(f.sug)}]
            ELSE st
        Added(res) ==
            IF res.err = "ValueError"
            THEN Mismatch(fork_and_fit(st.sug, rule, order))
            ELSE IF res.err = "RuntimeError"
            THEN [st EXCEPT !.removal_candidates = st.removal_candidates \cup {rule}]
            ELSE [st EXCEPT !.sug = res.sug,
                            !.tried_usages = st.tried_usages \cup {usage(res.sug)}]
    IN  Added(add_rule(st.sug, rule, order))

RECURSIVE ForRules(_, _, _, _, _)
ForRules(st, rules, order, selected, pending) ==
    IF rules = <<>> THEN st
    ELSE ForRules(TryRule(st, Head(rules), order, selected, pending),
                  Tail(rules), order, selected, pending)

\* list.remove(x) for every x of rems: the first occurrence is removed
RECURSIVE RemoveFirst(_, _)
RemoveFirst(list, rems) ==
    IF list = <<>> THEN <<>>
    ELSE IF Head(list) \in rems
    THEN RemoveFirst(Tail(list), rems \ {Head(list)})
    ELSE <<Head(list)>> \o RemoveFirst(Tail(list), rems)

\* S.add(x) for every x of the set xs
RECURSIVE SugAddAll(_, _)
SugAddAll(S, xs) ==
    IF xs = {} THEN S
    ELSE LET x == CHOOSE x \in xs : TRUE
         IN  SugAddAll(SugAdd(S, x), xs \ {x})

\* The number of rules the compiled policy is drawn from
MaxPolicy == 4

\* allow $1 $2:file read;
PhA ==
    <<"allow", " ", "@@ARG0@@", " ", "@@ARG1@@", ":", "file", " ", "read", ";">>

\* type_transition $1 t:file d;
PhC ==
    <<"type_transition", " ", "@@ARG0@@", " ", "t", ":", "file", " ", "d", ";">>

\* selected_macros: m1 is made of the first rule of m2
SelectedMacros ==
    <<[name |-> "m1", nargs |-> 2, placeholder_rules |-> <<PhA>>],
      [name |-> "m2", nargs |-> 2, placeholder_rules |-> <<PhA, PhC>>]>>

AvRead(s, t) ==
    [ruletype |-> "allow", source |-> <<s>>, target |-> <<t>>, tclass |-> "file",
     perms |-> {"read"}, default |-> <<>>, filename |-> <<>>]

TeDefault(s) ==
    [ruletype |-> "type_transition", source |-> <<s>>, target |-> <<"t">>,
     tclass |-> "file", perms |-> {}, default |-> <<"d">>, filename |-> <<>>]

\* The rules a compiled policy of the model may hold, in policy order
CandidateRules ==
    SubSeq(<<AvRead("a", "b"), TeDefault("a"), AvRead("d", "b"), TeDefault("d"),
             TeDefault("b")>>, 1, MaxPolicy)

\* The policies: the subsequences of CandidateRules
Policies ==
    {LET Chosen(x) == x \in S IN SelectSeq(CandidateRules, Chosen) :
        S \in SUBSET Range(CandidateRules)}

\* The orders in which a dictionary keyed by the placeholder rules of a
\* macro is iterated
Orders(macro) ==
    {o \in [1..Len(macro.placeholder_rules) -> Range(macro.placeholder_rules)] :
        Range(o) = Range(macro.placeholder_rules)}

\* A line of a TE file that holds a rule, and one that holds a macro usage
RuleLine == <<"a.te", ":", "1">>

UsageLine == <<"a.te", ":", "2">>

\* macrousages_filelines (its keys)
macrousages_filelines == {UsageLine}

VARIABLES
    sg_in,                  \* [policy, order, nim]: the policy, the iteration
                            \* order per macro, NON_IGNORED_MAPPING
    sg_k,                   \* the position in selected_macros
    overall_rules,
    macro_suggestions,
    selected_suggestions,
    tried_usages,
    global_suggestions,
    sg_pc                   \* "idle", "macro", "fit", "dedup", "done"

sugvars == <<sg_in, sg_k, overall_rules, macro_suggestions,
             selected_suggestions, tried_usages, global_suggestions, sg_pc>>

SugIdle ==
    /\ sg_in = <<>> /\ sg_k = 0 /\ overall_rules = <<>>
    /\ macro_suggestions = {} /\ selected_suggestions = {}
    /\ tried_usages = {} /\ global_suggestions = {} /\ sg_pc = "idle"

InitSug ==
    /\ \E policy \in Policies,
          order \in [1..Len(SelectedMacros) ->
                        UNION {Orders(SelectedMacros[i]) : i \in DOMAIN SelectedMacros}],
          nim \in [{StrOfRule(x) : x \in Range(CandidateRules)} ->
                      {<<RuleLine>>, <<UsageLine>>}] :
          /\ \A i \in DOMAIN SelectedMacros : order[i] \in Orders(SelectedMacros[i])
          /\ \A x \in Range(CandidateRules) \ Range(policy) :
                nim[StrOfRule(x)] = <<RuleLine>>
          /\ sg_in = [policy |-> policy, order |-> order, nim |-> nim]
    /\ sg_k = 1
    /\ overall_rules = <<>>
    /\ macro_suggestions = {}
    /\ selected_suggestions = {}
    /\ tried_usages = {}
    /\ global_suggestions = {}
    /\ sg_pc = "macro"

\* process_macro and the queries for the next macro
ProcessMacro ==
    /\ sg_pc = "macro"
    /\ overall_rules' = OverallRules(sg_in.policy, sg_in.order[sg_k])
    /\ macro_suggestions' = {NewSuggestion(SelectedMacros[sg_k])}
    /\ selected_suggestions' = {}
    /\ tried_usages' = {}
    /\ sg_pc' = "fit"
    /\ UNCHANGED <<sg_in, sg_k, global_suggestions>>

\* One iteration of "while macro_suggestions" for the suggestion popped
FitSuggestion(sug) ==
    /\ sg_pc = "fit"
    /\ sug \in macro_suggestions
    /\ LET Fitted(st) ==
               /\ selected_suggestions' =
                      SugAddAll(IF ScoreGe(st.sug.score, SUGGESTION_THRESHOLD)
                                THEN SugAdd(selected_suggestions, st.sug)
                                ELSE selected_suggestions,
                                {s \in st.newsugs : s.score.n = s.score.d})
               /\ macro_suggestions' =
                      SugAddAll(macro_suggestions \ {sug},
                                {s \in st.newsugs : s.score.n # s.score.d})
               /\ tried_usages' = st.tried_usages
               /\ overall_rules' = RemoveFirst(overall_rules, st.removal_candidates)
       IN  Fitted(ForRules([sug |-> sug, newsugs |-> {},
                            removal_candidates |-> {},
                            tried_usages |-> tried_usages],
                           overall_rules, sg_in.order[sg_k],
                           selected_suggestions, macro_suggestions \ {sug}))
    /\ UNCHANGED <<sg_in, sg_k, global_suggestions, sg_pc>>

\* A suggestion is kept when one of its rules has an origin that is not the
\* line of a macro usage
NotFromMacros(sug) ==
    \E r \in DOMAIN sug.rules :
        \E i \in DOMAIN sg_in.nim[StrOfRule(sug.rules[r])] :
            sg_in.nim[StrOfRule(sug.rules[r])][i] \notin macrousages_filelines

\* The end of the fitting loop of a macro
EndMacro ==
    /\ sg_pc = "fit"
    /\ macro_suggestions = {}
    /\ global_suggestions' =
           SugAddAll(global_suggestions,
                     {s \in selected_suggestions : NotFromMacros(s)})
    /\ sg_k' = sg_k + 1
    /\ sg_pc' = IF sg_k = Len(SelectedMacros) THEN "dedup" ELSE "macro"
    /\ UNCHANGED <<sg_in, overall_rules, macro_suggestions,
                   selected_suggestions, tried_usages>>

\* "Discard suggestions which are a subset of another with the same score"
Dedup ==
    /\ sg_pc = "dedup"
    /\ global_suggestions' =
           {x \in global_suggestions :
               ~\E y \in global_suggestions :
                   ScoreLe(x.score, y.score) /\ SugLt(x, y)}
    /\ sg_pc' = "done"
    /\ UNCHANGED <<sg_in, sg_k, overall_rules, macro_suggestions,
                   selected_suggestions, tried_usages>>

(***************************************************************************)
(* macro.py: M4MacroExpander, M4FreezeFile and M4Macro.  Text is a         *)
(* sequence of symbols.  The body of a macro definition is a sequence of   *)
(* lines, each a sequence of items: literal text, a reference $n to an     *)
(* argument, an ifelse( on an argument, or an m4exit( that makes the m4    *)
(* process end with a non-zero status.  The file system is the set of the  *)
(* paths that exist; a path is <<directory>> or <<directory, file>>.       *)
(***************************************************************************)
\* None, and "not x" for a string or None
PyNone == <<"<None>">>

Falsy(x) == x = PyNone \/ x = <<>>

\* M4Macro.operators
operators == {"ifelse(", "incr(", "decr(", "errprint("}

Lit(s) == [t |-> "lit", n |-> 0, s |-> s, y |-> "", z |-> ""]

ArgRef(n) == [t |-> "arg", n |-> n, s |-> "", y |-> "", z |-> ""]

IfElse(n, s, y, z) == [t |-> "ifelse(", n |-> n, s |-> s, y |-> y, z |-> z]

M4Exit == [t |-> "m4exit(", n |-> 0, s |-> "", y |-> "", z |-> ""]

\* The macro definitions in the freeze file: rw is a plain substitution
\* defined over several lines, sel an ifelse( defined over several lines,
\* one an ifelse( defined on the line of its name, userdebug_or_eng a
\* definition whose body is empty (as in a user build), bad a definition
\* on which m4 fails
M4Macros ==
    << [name |-> "rw", args |-> <<"domain", "type">>,
        lines |-> << <<>>,
                     <<Lit("allow "), ArgRef(1), Lit(" "), ArgRef(2),
                       Lit(":file "), Lit("{"), Lit(" read write "),
                       Lit("}"), Lit(";")>> >>],
       [name |-> "sel", args |-> <<"x">>,
        lines |-> << <<>>, <<IfElse(1, "a", "X", "Y")>> >>],
       [name |-> "one", args |-> <<"x">>,
        lines |-> << <<IfElse(1, "a", "X", "Y")>> >>],
       [name |-> "userdebug_or_eng", args |-> <<"x">>,
        lines |-> << <<>> >>],
       [name |-> "bad", args |-> <<"x">>,
        lines |-> << <<>>, <<M4Exit>> >>] >>

\* The macros without arguments of the freeze file, by name
ZeroArity == [r_file_perms |-> <<"{", " read ", "}">>]

MacroNamed(name) ==
    LET i == CHOOSE k \in DOMAIN M4Macros : M4Macros[k].name = name
    IN M4Macros[i]

ArgSym(n) == IF n = 1 THEN "$1" ELSE "$2"

\* The text of an item as m4 prints it in a definition
ItemText(item) ==
    IF item.t = "lit" THEN <<item.s>>
    ELSE IF item.t = "arg" THEN <<ArgSym(item.n)>>
    ELSE IF item.t = "ifelse("
    THEN <<"ifelse(", ArgSym(item.n), ",", item.s, ",", item.y, ",", item.z, ")">>
    ELSE <<"m4exit(", "1", ")">>

RECURSIVE LineText(_)
LineText(items) ==
    IF items = <<>> THEN <<>>
    ELSE ItemText(Head(items)) \o LineText(Tail(items))

\* "\n".join(lines)
RECURSIVE JoinLines(_)
JoinLines(lines) ==
    IF lines = <<>> THEN <<>>
    ELSE IF Len(lines) = 1 THEN lines[1]
    ELSE lines[1] \o <<"\n">> \o JoinLines(Tail(lines))

\* The lines m4 prints for the dumpdef of name: the body follows the name on
\* the first line; lquote and rquote are the quotes of m4
DumpDef(name) ==
    LET m == MacroNamed(name)
    IN [i \in DOMAIN m.lines |->
           (IF i = 1 THEN <<name, ":\t", "lquote">> ELSE <<>>)
           \o LineText(m.lines[i])
           \o (IF i = Len(m.lines) THEN <<"rquote">> ELSE <<>>)]

\* name + "(" + ", ".join(args) + ")"
RECURSIVE CommaJoin(_)
CommaJoin(args) ==
    IF args = <<>> THEN <<>>
    ELSE IF Len(args) = 1 THEN <<args[1]>>
    ELSE <<args[1], ",", " ">> \o CommaJoin(Tail(args))

CallText(name, args) == <<name, "(">> \o CommaJoin(args) \o <<")">>

\* The arguments m4 collects from the text between the parentheses: split
\* at the commas, the blanks before an argument dropped
RECURSIVE M4Args(_, _, _)
M4Args(s, cur, acc) ==
    IF s = <<>> THEN Append(acc, cur)
    ELSE IF Head(s) = "," THEN M4Args(Tail(s), <<>>, Append(acc, cur))
    ELSE IF Head(s) = " " /\ cur = <<>> THEN M4Args(Tail(s), cur, acc)
    ELSE M4Args(Tail(s), Append(cur, Head(s)), acc)

\* m4 expands the macros it meets while it collects an argument
RECURSIVE ExpandArg(_)
ExpandArg(arg) ==
    IF arg = <<>> THEN <<>>
    ELSE (IF Head(arg) \in DOMAIN ZeroArity THEN ZeroArity[Head(arg)]
          ELSE <<Head(arg)>>)
         \o ExpandArg(Tail(arg))

ArgValue(args, n) == IF n \in DOMAIN args THEN ExpandArg(args[n]) ELSE <<>>

EvalItem(item, args) ==
    IF item.t = "lit" THEN <<item.s>>
    ELSE IF item.t = "arg" THEN ArgValue(args, item.n)
    ELSE IF ArgValue(args, item.n) = <<item.s>> THEN <<item.y>>
    ELSE <<item.z>>

RECURSIVE EvalItems(_, _)
EvalItems(items, args) ==
    IF items = <<>> THEN <<>>
    ELSE EvalItem(Head(items), args) \o EvalItems(Tail(items), args)

\* M4MacroExpander.expand: the output of m4 on the text, None when m4 ends
\* with a non-zero status
M4Run(text) ==
    LET Out(m, args) ==
            IF \E i \in DOMAIN m.lines : \E j \in DOMAIN m.lines[i] :
                   m.lines[i][j].t = "m4exit("
            THEN PyNone
            ELSE JoinLines([i \in DOMAIN m.lines |-> EvalItems(m.lines[i], args)])
    IN Out(MacroNamed(text[1]),
           IF Len(text) > 1
           THEN M4Args(SubSeq(text, 3, Len(text) - 1), <<>>, <<>>)
           ELSE <<>>)

\* "@@ARG{}@@".format(i) and the "{i}" that replaces it in the template
PhSym(i) == IF i = 0 THEN "@@ARG0@@" ELSE "@@ARG1@@"

FmtSym(i) == IF i = 0 THEN "{0}" ELSE "{1}"

\* The two re.sub of M4Macro.expand: the curly brackets doubled, then
\* @@ARGN@@ replaced by {N}
Template(expansion) ==
    [i \in DOMAIN expansion |->
        IF expansion[i] = "{" THEN "{{"
        ELSE IF expansion[i] = "}" THEN "}}"
        ELSE IF expansion[i] = PhSym(0) THEN FmtSym(0)
        ELSE IF expansion[i] = PhSym(1) THEN FmtSym(1)
        ELSE expansion[i]]

\* template.format(*args)
Format(template, args) ==
    [i \in DOMAIN template |->
        IF template[i] = "{{" THEN "{"
        ELSE IF template[i] = "}}" THEN "}"
        ELSE IF template[i] = FmtSym(0) THEN args[1]
        ELSE IF template[i] = FmtSym(1) THEN args[2]
        ELSE template[i]]

\* M4Macro.__init__
NewM4Macro(name) ==
    [name |-> name, expansion |-> PyNone, expansion_static |-> "None",
     dump |-> PyNone]

\* The dump property of M4Macro
WithDump(self) ==
    IF Falsy(self.dump)
    THEN [self EXCEPT !.dump = JoinLines(Tail(DumpDef(self.name)))]
    ELSE self

\* M4Macro.expand: the object after the call, the value returned, the
\* exception raised and the texts the call handed to M4MacroExpander.expand
M4MacroExpand(self, args) ==
    LET Ret(s, ret, err, texts) ==
            [self |-> s, ret |-> ret, err |-> err, texts |-> texts]
        nargs == Len(MacroNamed(self.name).args)
        Dumped(s) == Ret(s, s.dump, "", <<>>)
        Cached(s, e, text) == Ret([s EXCEPT !.expansion = e], e, "", <<text>>)
        Built(s, expansion, tmp) ==
            IF expansion = PyNone THEN Ret(s, PyNone, "TypeError", <<tmp>>)
            ELSE Ret([s EXCEPT !.expansion = Template(expansion)],
                     Format(Template(expansion), args), "", <<tmp>>)
        Classify(d) ==
            [d EXCEPT !.expansion_static =
                IF \E op \in operators : op \in Range(d.dump)
                THEN "False" ELSE "True"]
        Classified(s) ==
            IF s.expansion_static = "None" THEN Classify(WithDump(s)) ELSE s
        Rest(s) ==
            IF nargs = 0
            THEN IF Falsy(s.expansion)
                 THEN Cached(s, M4Run(<<s.name>>), <<s.name>>)
                 ELSE Ret(s, s.expansion, "", <<>>)
            ELSE IF args = PyNone THEN Dumped(WithDump(s))
            ELSE IF Len(args) # nargs THEN Ret(s, PyNone, "", <<>>)
            ELSE IF s.expansion_static # "True"
            THEN Ret(s, M4Run(CallText(s.name, args)), "",
                     <<CallText(s.name, args)>>)
            ELSE IF Falsy(s.expansion)
            THEN Built(s, M4Run(CallText(s.name, [i \in 1..nargs |-> PhSym(i - 1)])),
                       CallText(s.name, [i \in 1..nargs |-> PhSym(i - 1)]))
            ELSE Ret(s, Format(s.expansion, args), "", <<>>)
    IN Rest(Classified(self))

\* The number of calls of M4Macro.expand in a run
MaxCalls == 3

\* The arguments of a call: None, or one or two names
ArgNames == {"a", "b", "r_file_perms"}

CallArgs ==
    {PyNone} \cup {<<x>> : x \in ArgNames}
    \cup {<<x, y>> : x \in ArgNames, y \in {"a", "b"}}

FreezePath(dir) == <<dir, "freezefile">>

TmpPath(dir) == <<dir, "tmpfile">>

VARIABLES m4_in, drv, fs, tmp_text, m4m, m4_calls, m4_last, m4_n

m4vars == <<m4_in, drv, fs, tmp_text, m4m, m4_calls, m4_last, m4_n>>

NoDriver ==
    [state |-> "none", tmpdir |-> "", tmpdir_managed |-> FALSE,
     has_freeze_file |-> FALSE, has_tmp |-> FALSE]

NoCall == [args |-> <<>>, ret |-> <<>>, err |-> "", ncalls |-> 0]

M4Idle ==
    /\ m4_in = <<>> /\ drv = NoDriver /\ fs = {} /\ tmp_text = <<>>
    /\ m4m = <<>> /\ m4_calls = 0 /\ m4_last = NoCall /\ m4_n = 0

\* Before the expander is built: the macro to expand is chosen and the
\* directory handed to the constructor exists or is not given
InitM4 ==
    /\ \E i \in DOMAIN M4Macros, tmpdir \in {"", "given"} :
          /\ m4_in = [macro |-> M4Macros[i].name, tmpdir |-> tmpdir]
          /\ fs = IF tmpdir = "given" THEN {<<"given">>} ELSE {}
          /\ m4m = NewM4Macro(M4Macros[i].name)
    /\ drv = NoDriver /\ tmp_text = <<>>
    /\ m4_calls = 0 /\ m4_last = NoCall /\ m4_n = 0

\* M4MacroExpander.__init__ with M4FreezeFile.__init__: m4 writes the
\* freeze file, or fails and leaves a part of it or nothing
Construct(freeze) ==
    /\ drv.state = "none"
    /\ LET managed == ~(m4_in.tmpdir # "" /\ <<m4_in.tmpdir>> \in fs)
           dir == IF managed THEN "mkdtemp" ELSE m4_in.tmpdir
       IN IF freeze = "ok"
          THEN /\ fs' = fs \cup {<<dir>>, FreezePath(dir), TmpPath(dir)}
               /\ drv' = [state |-> "live", tmpdir |-> dir,
                          tmpdir_managed |-> managed,
                          has_freeze_file |-> TRUE, has_tmp |-> TRUE]
          ELSE /\ fs' = fs \cup {<<dir>>}
                        \cup (IF freeze = "partial" THEN {FreezePath(dir)} ELSE {})
               /\ drv' = [state |-> "aborted", tmpdir |-> dir,
                          tmpdir_managed |-> managed,
                          has_freeze_file |-> FALSE, has_tmp |-> FALSE]
    /\ UNCHANGED <<m4_in, tmp_text, m4m, m4_calls, m4_last, m4_n>>

\* A call of M4Macro.expand on the macro, the expander alive
ExpandMacro(args) ==
    /\ drv.state = "live"
    /\ m4_n < MaxCalls
    /\ LET Apply(r) ==
              /\ m4m' = r.self
              /\ m4_last' = [args |-> args, ret |-> r.ret, err |-> r.err,
                             ncalls |-> Len(r.texts)]
              /\ m4_calls' = m4_calls + Len(r.texts)
              /\ tmp_text' = IF r.texts # <<>> THEN r.texts[Len(r.texts)]
                             ELSE IF r.self.dump # m4m.dump
                             THEN <<"dumpdef(", "lquote", m4m.name, "rquote", ")">>
                             ELSE tmp_text
       IN Apply(M4MacroExpand(m4m, args))
    /\ m4_n' = m4_n + 1
    /\ UNCHANGED <<m4_in, drv, fs>>

\* os.rmdir
Rmdir(files, dir) ==
    IF \E p \in files : Len(p) = 2 /\ p[1] = dir THEN files
    ELSE files \ {<<dir>>}

\* M4MacroExpander.__del__ once the expander is dropped, with
\* M4FreezeFile.__del__ of its freeze file object: self.tmp raises
\* AttributeError when the constructor was aborted before it set _tmp, and
\* the rest of __del__ is not run
Teardown ==
    /\ drv.state \in {"live", "aborted"}
    /\ IF ~drv.has_tmp
       THEN fs' = fs \ {FreezePath(drv.tmpdir)}
       ELSE fs' = LET removed == fs \ {TmpPath(drv.tmpdir), FreezePath(drv.tmpdir)}
                  IN IF drv.tmpdir_managed THEN Rmdir(removed, drv.tmpdir)
                     ELSE removed
    /\ drv' = [drv EXCEPT !.state = "gone"]
    /\ UNCHANGED <<m4_in, tmp_text, m4m, m4_calls, m4_last, m4_n>>

(***************************************************************************)
(* policy.py: SourcePolicy.__split_macro_usage_args__.  The argument       *)
(* string is a sequence of characters; lquote and rquote stand for the     *)
(* opening and the closing quote of m4, and any other symbol is a generic  *)
(* character or a run of them.  The result is [none, args]: none is TRUE   *)
(* when the function returns None.                                         *)
(***************************************************************************)
RECURSIVE SplitLoop(_, _, _, _, _, _)
SplitLoop(s, grp, args, nested_curly, nested_quotes, nested_parentheses) ==
    IF s = <<>> THEN [none |-> FALSE, args |-> Append(args, grp)]
    ELSE LET c == Head(s)
             Go(g, a, nc, nq, np) == SplitLoop(Tail(s), g, a, nc, nq, np)
             Close(np) ==
                 IF nested_quotes # 0 \/ nested_curly # 0 \/ np > 0
                 THEN Go(Append(grp, c), args, nested_curly, nested_quotes, np)
                 ELSE IF np = 0
                 THEN [none |-> FALSE, args |-> Append(args, grp)]
                 ELSE [none |-> TRUE, args |-> <<>>]
         IN IF c = "("
            THEN Go(IF nested_quotes # 0 \/ nested_curly # 0 \/ nested_parentheses # 0
                    THEN Append(grp, c) ELSE grp,
                    args, nested_curly, nested_quotes,
                    IF nested_quotes = 0 /\ nested_curly = 0
                    THEN nested_parentheses + 1 ELSE nested_parentheses)
            ELSE IF c = "{"
            THEN Go(Append(grp, c), args,
                    IF nested_quotes = 0 THEN nested_curly + 1 ELSE nested_curly,
                    nested_quotes, nested_parentheses)
            ELSE IF c = "lquote"
            THEN Go(Append(grp, c), args, nested_curly,
                    IF nested_curly = 0 THEN nested_quotes + 1 ELSE nested_quotes,
                    nested_parentheses)
            ELSE IF c = "}"
            THEN IF nested_quotes = 0 /\ nested_curly - 1 < 0
                 THEN [none |-> TRUE, args |-> <<>>]
                 ELSE Go(Append(grp, c), args,
                         IF nested_quotes = 0 THEN nested_curly - 1 ELSE nested_curly,
                         nested_quotes, nested_parentheses)
            ELSE IF c = "rquote"
            THEN IF nested_curly = 0 /\ nested_quotes - 1 < 0
                 THEN [none |-> TRUE, args |-> <<>>]
                 ELSE Go(Append(grp, c), args, nested_curly,
                         IF nested_curly = 0 THEN nested_quotes - 1 ELSE nested_quotes,
                         nested_parentheses)
            ELSE IF c = ")"
            THEN Close(IF nested_quotes = 0 /\ nested_curly = 0
                       THEN nested_parentheses - 1 ELSE nested_parentheses)
            ELSE IF c = ","
            THEN IF nested_curly = 0 /\ nested_quotes = 0
                 THEN Go(<<>>, Append(args, grp), nested_curly, nested_quotes,
                         nested_parentheses)
                 ELSE Go(Append(grp, c), args, nested_curly, nested_quotes,
                         nested_parentheses)
            ELSE IF c = " "
            THEN Go(IF nested_curly # 0 \/ nested_quotes # 0
                    THEN Append(grp, c) ELSE grp,
                    args, nested_curly, nested_quotes, nested_parentheses)
            ELSE Go(Append(grp, c), args, nested_curly, nested_quotes,
                    nested_parentheses)

split_macro_usage_args(argstring) == SplitLoop(argstring, <<>>, <<>>, 0, 0, 0)

\* The length of the text between the outermost parentheses
MaxArgLen == 4

ScanAlphabet == {"(", ")", "{", "}", "lquote", "rquote", ",", " ", "a"}

\* The argument strings: what the usage regex captures, from an opening to
\* a closing parenthesis, and the two examples of the documentation
ArgStrings ==
    {<<"(">> \o b \o <<")">> :
        b \in UNION {[1..n -> ScanAlphabet] : n \in 0..MaxArgLen}}
    \cup {<<"(", "{", " ", "appdomain", ",", " ", "-isolated_app", " ", "}",
            ",", " ", "something", ",", " ", "lquote", "third", " ",
            "argument", "rquote", ")">>,
          <<"(", "f", "(", "a", ",", " ", "b", ")", ",", " ", "c", ")">>}

VARIABLES sp_in, sp_out, sp_pc

spvars == <<sp_in, sp_out, sp_pc>>

SplitIdle == sp_in = <<>> /\ sp_out = <<>> /\ sp_pc = "idle"

InitSplit ==
    /\ sp_in \in ArgStrings
    /\ sp_out = <<>>
    /\ sp_pc = "call"

SplitArgs ==
    /\ sp_pc = "call"
    /\ sp_out' = split_macro_usage_args(sp_in)
    /\ sp_pc' = "done"
    /\ UNCHANGED sp_in

(***************************************************************************)
(* macro.py: MacroInPolicy.__init__.  A value that may be None is a record *)
(* [none, v]; the catalog existing_macros is [none, d] with d a function   *)
(* from macro names to macros [none, name, nargs], none being TRUE for a   *)
(* key whose value is None; line_used is [t, v] with t the type of the     *)
(* value handed in.                                                        *)
(***************************************************************************)
Some(v) == [none |-> FALSE, v |-> v]

NoneStr == [none |-> TRUE, v |-> ""]

NoneList == [none |-> TRUE, v |-> <<>>]

MacroDef(name, nargs) == [none |-> FALSE, name |-> name, nargs |-> nargs]

NoMacro == [none |-> TRUE, name |-> "", nargs |-> 0]

NoUsage == [macro |-> NoMacro, args |-> <<>>, file_used |-> "", line_used |-> 0]

\* The constructor without the comparison of nargs with len(args)
MacroInPolicyAnyArity(existing_macros, file_used, line_used, name, args) ==
    IF \/ existing_macros.none \/ DOMAIN existing_macros.d = {}
       \/ file_used.none \/ file_used.v = ""
       \/ line_used.t = "None" \/ line_used.t # "int" \/ line_used.v < 0
       \/ name.none \/ name.v = ""
       \/ args.none
    THEN [err |-> "M4MacroError", obj |-> NoUsage]
    ELSE IF /\ name.v \in DOMAIN existing_macros.d
            /\ ~existing_macros.d[name.v].none
         THEN [err |-> "",
               obj |-> [macro |-> existing_macros.d[name.v], args |-> args.v,
                        file_used |-> file_used.v, line_used |-> line_used.v]]
         ELSE [err |-> "M4MacroError", obj |-> NoUsage]

\* MacroInPolicy.__init__: the exception raised and the object built
MacroInPolicyInit(existing_macros, file_used, line_used, name, args) ==
    IF \/ existing_macros.none \/ DOMAIN existing_macros.d = {}
       \/ file_used.none \/ file_used.v = ""
       \/ line_used.t = "None" \/ line_used.t # "int" \/ line_used.v < 0
       \/ name.none \/ name.v = ""
       \/ args.none
    THEN [err |-> "M4MacroError", obj |-> NoUsage]
    ELSE IF /\ name.v \in DOMAIN existing_macros.d
            /\ ~existing_macros.d[name.v].none
            /\ existing_macros.d[name.v].nargs = Len(args.v)
         THEN [err |-> "",
               obj |-> [macro |-> existing_macros.d[name.v], args |-> args.v,
                        file_used |-> file_used.v, line_used |-> line_used.v]]
         ELSE [err |-> "M4MacroError", obj |-> NoUsage]

\* The largest number of arguments of a usage
MaxUsageArgs == 2

\* The values handed to the constructor
Catalog ==
    [k \in {"m2", "m0", "invalid"} |->
        IF k = "m2" THEN MacroDef("m2", 2)
        ELSE IF k = "m0" THEN MacroDef("m0", 0)
        ELSE NoMacro]

Catalogs ==
    {[none |-> TRUE, d |-> <<>>], [none |-> FALSE, d |-> <<>>],
     [none |-> FALSE, d |-> Catalog]}

FilesUsed == {NoneStr, Some(""), Some("f.te")}

LinesUsed ==
    {[t |-> "None", v |-> 0], [t |-> "int", v |-> -4], [t |-> "int", v |-> 0],
     [t |-> "int", v |-> 4], [t |-> "str", v |-> 4]}

NamesUsed == {NoneStr, Some(""), Some("m2"), Some("m0"), Some("missing"), Some("invalid")}

ArgsUsed ==
    {NoneList} \cup {Some(a) : a \in UNION {[1..n -> {"a", "b"}] : n \in 0..MaxUsageArgs}}

VARIABLES mc_in, mc_out, mc_pc

mcvars == <<mc_in, mc_out, mc_pc>>

CallIdle == mc_in = <<>> /\ mc_out = <<>> /\ mc_pc = "idle"

InitCall ==
    /\ \E em \in Catalogs, f \in FilesUsed, l \in LinesUsed, n \in NamesUsed,
          a \in ArgsUsed :
          mc_in = [existing_macros |-> em, file_used |-> f, line_used |-> l,
                   name |-> n, args |-> a]
    /\ mc_out = <<>>
    /\ mc_pc = "call"

NewMacroInPolicy ==
    /\ mc_pc = "call"
    /\ mc_out' = MacroInPolicyInit(mc_in.existing_macros, mc_in.file_used,
                                   mc_in.line_used, mc_in.name, mc_in.args)
    /\ mc_pc' = "done"
    /\ UNCHANGED mc_in

(***************************************************************************)
(* policy.py: SourcePolicy.__get_macro_usage_args__ and                    *)
(* __find_macro_usages__ over one TE file.  A line is a sequence of        *)
(* symbols: a word (a run of \w characters) is one symbol, any other       *)
(* character is a symbol of its own.                                       *)
(***************************************************************************)
NonWord == {"(", ")", "{", "}", "lquote", "rquote", ",", " ", ";", "#", ":"}

\* re.split(r'\W+', line), without the empty strings (no macro has the
\* empty name, and the index of the empty string is 0)
WordsOf(line) == SelectSeq(line, LAMBDA c : c \notin NonWord)

\* The macros of the policy, by name
TeCatalog ==
    [k \in {"m2", "m1"} |-> IF k = "m2" THEN MacroDef("m2", 2) ELSE MacroDef("m1", 1)]

\* __get_macro_usage_args__: [err, none, args], none TRUE when the function
\* returns None; len(None) raises TypeError
get_macro_usage_args(macro, line) ==
    LET Bad == [err |-> "", none |-> TRUE, args |-> <<>>]
        Checked(r) ==
            IF r.none THEN [err |-> "TypeError", none |-> TRUE, args |-> <<>>]
            ELSE IF Len(r.args) # macro.nargs THEN Bad
            ELSE [err |-> "", none |-> FALSE, args |-> r.args]
    IN IF macro.nargs > 0
       THEN IF /\ Len(line) >= 3 /\ line[1] = macro.name /\ line[2] = "("
               /\ \E k \in 3..Len(line) : line[k] = ")"
            THEN Checked(split_macro_usage_args(
                     SubSeq(line, 2, Max({k \in 3..Len(line) : line[k] = ")"}))))
            ELSE IF \E p \in 1..(Len(line) - 2) :
                       /\ line[p] = macro.name /\ line[p + 1] = "("
                       /\ line[p + 2] = "lquote"
            THEN [err |-> "", none |-> FALSE,
                  args |-> [i \in 1..macro.nargs |-> <<"multiline">>]]
            ELSE Bad
       ELSE [err |-> "", none |-> FALSE, args |-> <<>>]

\* The loop over the words of a line: the exception raised and the usages
\* recorded
RECURSIVE WordLoop(_, _, _, _)
WordLoop(words, stripped_line, lineno, usages) ==
    IF words = <<>> THEN [err |-> "", usages |-> usages]
    ELSE LET word == Head(words)
             Built(n_m) ==
                 WordLoop(Tail(words),
                          SubSeq(stripped_line,
                                 Min({i \in DOMAIN stripped_line : stripped_line[i] = word}),
                                 Len(stripped_line)),
                          lineno,
                          IF n_m.err = "" THEN Append(usages, n_m.obj) ELSE usages)
             Got(a) ==
                 IF a.err # "" THEN [err |-> a.err, usages |-> usages]
                 ELSE IF a.none THEN Built([err |-> "skipped", obj |-> NoUsage])
                 ELSE Built(MacroInPolicyInit([none |-> FALSE, d |-> TeCatalog],
                                              Some("f.te"),
                                              [t |-> "int", v |-> lineno],
                                              Some(word), Some(a.args)))
         IN IF word \in DOMAIN TeCatalog
            THEN Got(get_macro_usage_args(
                         TeCatalog[word],
                         SubSeq(stripped_line,
                                Min({i \in DOMAIN stripped_line : stripped_line[i] = word}),
                                Len(stripped_line))))
            ELSE Built([err |-> "skipped", obj |-> NoUsage])

\* One iteration of the loop over the lines of the file
LineUsages(line, lineno, usages) ==
    LET Searched(l) == WordLoop(WordsOf(l), l, lineno, usages)
        Stripped(l) ==
            IF l # <<>> /\ Head(l) = "#" THEN [err |-> "", usages |-> usages]
            ELSE IF "#" \in Range(l) THEN Searched(Strip(BeforeHash(l), {" "}))
            ELSE Searched(l)
    IN Stripped(Strip(line, {" "}))

\* The number of lines of the TE file
MaxTeLines == 2

\* The lines of the model: valid usages, a usage with too few arguments,
\* usages with a curly bracket, a quote or a parenthesis that has no match,
\* a comment, a rule, two usages on a line, a usage that opens a quoted
\* block
TeLineSet ==
    { <<"m2", "(", "a", ",", " ", "b", ")">>,
      <<"m1", "(", "c", ")", " ", "#", " ", "m2", "(", "a", ")">>,
      <<"m2", "(", "a", ")">>,
      <<"m2", "(", "a", " ", "}", ",", " ", "b", ")">>,
      <<"m2", "(", "a", "rquote", ",", " ", "b", ")">>,
      <<"m2", "(", "(", "a", ",", " ", "b", ")">>,
      <<"m2", "(", "a", ",", " ", "b">>,
      <<"#", " ", "m2", "(", "a", ",", " ", "b", ")">>,
      <<"allow", " ", "a", " ", "b", ":", "file", " ", "read", ";">>,
      <<" ", "m1", "(", "a", ")", " ", "m1", "(", "b", ")">>,
      <<"m1", "(", "lquote">> }

TeFiles == UNION {[1..n -> TeLineSet] : n \in 0..MaxTeLines}

VARIABLES te_lines, te_lineno, macro_usages, te_err, te_pc

tevars == <<te_lines, te_lineno, macro_usages, te_err, te_pc>>

TeIdle ==
    /\ te_lines = <<>> /\ te_lineno = 0 /\ macro_usages = <<>>
    /\ te_err = "" /\ te_pc = "idle"

InitTe ==
    /\ te_lines \in TeFiles
    /\ te_lineno = 0 /\ macro_usages = <<>> /\ te_err = ""
    /\ te_pc = "read"

\* The body of the loop over the lines, for the next line of the file
FindInLine ==
    /\ te_pc = "read"
    /\ te_lineno < Len(te_lines)
    /\ LET Apply(r) ==
              /\ macro_usages' = r.usages
              /\ te_err' = r.err
              /\ te_pc' = IF r.err # "" THEN "raised" ELSE "read"
       IN Apply(LineUsages(te_lines[te_lineno + 1], te_lineno + 1, macro_usages))
    /\ te_lineno' = te_lineno + 1
    /\ UNCHANGED te_lines

\* return macro_usages
ReturnUsages ==
    /\ te_pc = "read"
    /\ te_lineno = Len(te_lines)
    /\ te_pc' = "done"
    /\ UNCHANGED <<te_lines, te_lineno, macro_usages, te_err>>

(***************************************************************************)
(* plugins/risky_rules.py with plugins/config/risky_rules.py.  The         *)
(* configuration sets SCORING_SYSTEM to "risk", so the branches of the     *)
(* trust systems are not taken.  A score is an exact fraction [n, d]; the  *)
(* buckets keep the types and permissions that the rules of the model use. *)
(***************************************************************************)
Fr(n, d) == [n |-> n, d |-> d]

FrAdd(a, b) == Fr(a.n * b.d + b.n * a.d, a.d * b.d)

FrMul(a, b) == Fr(a.n * b.n, a.d * b.d)

FrEq(a, b) == a.n * b.d = b.n * a.d

FrLt(a, b) == a.n * b.d < b.n * a.d

TYPES ==
    [security_sensitive |-> {"keystore_data_file", "tee"},
     user_app |-> {"untrusted_app"},
     core_domains |-> {"init", "vold"},
     default_types |-> {"device"},
     sensitive |-> {"graphics_device"}]

SCORE_RISK ==
    [security_sensitive |-> Fr(30, 1), user_app |-> Fr(30, 1),
     core_domains |-> Fr(15, 1), default_types |-> Fr(30, 1),
     sensitive |-> Fr(20, 1)]

PERMS ==
    [perms_high |-> {"ioctl", "write"}, perms_med |-> {"read"},
     perms_low |-> {"getattr", "open"}]

SCORE ==
    [perms_high |-> Fr(1, 1), perms_med |-> Fr(9, 10), perms_low |-> Fr(1, 2),
     capability |-> Fr(30, 1), capability2 |-> Fr(30, 1)]

CAPABILITIES == {"capability", "capability2"}

MAXIMUM_SCORE == 60

SCORE_THRESHOLD == Fr(1, 2)

SUPPORTED_RULE_TYPES == {"allow", "type_transition"}

RULE_IGNORE_PATHS == {<<"external/sepolicy">>}

\* The loops over TYPES: the risk score of the bucket that holds the type,
\* nothing when no bucket holds it (the buckets are disjoint)
BucketRisk(type) ==
    IF \E crit \in DOMAIN TYPES : type \in {<<t>> : t \in TYPES[crit]}
    THEN SCORE_RISK[CHOOSE crit \in DOMAIN TYPES : type \in {<<t>> : t \in TYPES[crit]}]
    ELSE Fr(0, 1)

\* The coefficients of the permission buckets that share a permission with
\* the rule
PermScores(rule) ==
    {SCORE[crit] : crit \in {c \in DOMAIN PERMS :
                               rule.permset \cap {<<p>> : p \in PERMS[c]} # {}}}

\* score_avrule with the capability score left out: the target bucket is
\* matched for every class
score_avrule_target_only(rule) ==
    LET Times(score, ps) ==
            IF ps = {} THEN score
            ELSE FrMul(score, CHOOSE x \in ps : \A y \in ps : ~FrLt(x, y))
        Normalised(score) == Fr(score.n, score.d * MAXIMUM_SCORE)
    IN Normalised(Times(FrAdd(BucketRisk(rule.source), BucketRisk(rule.target)),
                        PermScores(rule)))

\* score_avrule
score_avrule(rule) ==
    LET Times(score, ps) ==
            IF ps = {} THEN score
            ELSE FrMul(score, CHOOSE x \in ps : \A y \in ps : ~FrLt(x, y))
        Normalised(score) == Fr(score.n, score.d * MAXIMUM_SCORE)
    IN Normalised(Times(FrAdd(BucketRisk(rule.source),
                              IF rule.tclass \in {<<c>> : c \in CAPABILITIES}
                              THEN SCORE[rule.tclass[1]]
                              ELSE BucketRisk(rule.target)),
                        PermScores(rule)))

\* score_terule
score_terule(rule) ==
    LET Normalised(score) == Fr(score.n, score.d * MAXIMUM_SCORE)
    IN Normalised(FrAdd(BucketRisk(rule.source), BucketRisk(rule.deftype)))

\* score_rule
score_rule(rule) ==
    IF rule.rtype \in {<<x>> : x \in AVRULES} THEN score_avrule(rule)
    ELSE score_terule(rule)

\* "{:.2f}".format(score) as a number of hundredths; the scores this
\* configuration gives at or above the threshold are printed rounded half up
Hundredths(score) == (2 * 100 * score.n + score.d) \div (2 * score.d)

\* The order in which Python compares the symbols of the printed rules
RiskSymOrder ==
    <<" ", "/a.te", "/base/", "1", ":", ";", "allow", "capability",
      "external/sepolicy", "file", "getattr", "init", "keystore_data_file",
      "neverallow", "read", "self", "shell", "sys_admin", "tmpfs",
      "type_transition", "untrusted_app", "vendor/sepolicy", "write", "{", "}">>

SymRank(c) == CHOOSE i \in DOMAIN RiskSymOrder : RiskSymOrder[i] = c

RECURSIVE TextLt(_, _)
TextLt(a, b) ==
    IF b = <<>> THEN FALSE
    ELSE IF a = <<>> THEN TRUE
    ELSE IF Head(a) = Head(b) THEN TextLt(Tail(a), Tail(b))
    ELSE SymRank(Head(a)) < SymRank(Head(b))

\* The order of two printed lines "score: fileline: rule"
PrintLt(x, y) ==
    \/ Hundredths(x.score) < Hundredths(y.score)
    \/ Hundredths(x.score) = Hundredths(y.score) /\ TextLt(x.r, y.r)

RECURSIVE InsertLine(_, _)
InsertLine(x, sorted) ==
    IF sorted = <<>> THEN <<x>>
    ELSE IF PrintLt(x, Head(sorted)) THEN <<x>> \o sorted
    ELSE <<Head(sorted)>> \o InsertLine(x, Tail(sorted))

\* sorted(printouts, reverse=REVERSE_SORT), REVERSE_SORT being False
RECURSIVE SortedLines(_)
SortedLines(lines) ==
    IF lines = <<>> THEN <<>>
    ELSE InsertLine(Head(lines), SortedLines(Tail(lines)))

\* The number of rules of the mapping
MaxRiskRules == 2

\* The rules of the mapping: allow rules over three sources, three targets
\* and four permission blocks, two type transitions, a neverallow, and an
\* allow rule from an ignored path
RiskText(rtype, source, target, tclass, end) ==
    <<rtype, " ", source, " ", target, ":", tclass, " ">> \o end \o <<";">>

VendorLine == <<"/base/", "vendor/sepolicy", "/a.te", ":", "1">>

IgnoredLine == <<"/base/", "external/sepolicy", "/a.te", ":", "1">>

RiskRules ==
    {[rule |-> RiskText("allow", s, tc[1], tc[2], p), fileline |-> VendorLine] :
        s \in {"untrusted_app", "init", "shell"},
        tc \in {<<"keystore_data_file", "file">>, <<"tmpfs", "file">>,
                <<"self", "capability">>},
        p \in {<<"write">>, <<"{", " ", "read", " ", "getattr", " ", "}">>,
               <<"getattr">>, <<"sys_admin">>}}
    \cup {[rule |-> RiskText("type_transition", "init", "tmpfs", "file",
                             <<"keystore_data_file">>),
           fileline |-> VendorLine],
          [rule |-> RiskText("type_transition", "shell", "tmpfs", "file", <<"tmpfs">>),
           fileline |-> VendorLine],
          [rule |-> RiskText("neverallow", "untrusted_app", "keystore_data_file",
                             "file", <<"write">>),
           fileline |-> VendorLine],
          [rule |-> RiskText("allow", "untrusted_app", "keystore_data_file",
                             "file", <<"write">>),
           fileline |-> IgnoredLine]}

VARIABLES rk_rules, rk_i, rk_scored, printouts, rk_out, rk_pc

rkvars == <<rk_rules, rk_i, rk_scored, printouts, rk_out, rk_pc>>

RiskIdle ==
    /\ rk_rules = <<>> /\ rk_i = 0 /\ rk_scored = <<>> /\ printouts = <<>>
    /\ rk_out = <<>> /\ rk_pc = "idle"

InitRisk ==
    /\ rk_rules \in UNION {[1..n -> RiskRules] : n \in 0..MaxRiskRules}
    /\ rk_i = 0 /\ rk_scored = <<>> /\ printouts = <<>> /\ rk_out = <<>>
    /\ rk_pc = "score"

\* The body of the loop of main over the rules of the mapping; rk_scored
\* keeps each rule object with the score it was given
ScoreNext ==
    /\ rk_pc = "score"
    /\ rk_i < Len(rk_rules)
    /\ LET Scored(r, rule, score) ==
              /\ rk_scored' = Append(rk_scored, [rule |-> rule, score |-> score,
                                                 r |-> r.fileline \o <<":", " ">> \o r.rule])
              /\ printouts' =
                    IF ~FrLt(score, SCORE_THRESHOLD)
                    THEN Append(printouts,
                                [score |-> score,
                                 r |-> r.fileline \o <<":", " ">> \o r.rule])
                    ELSE printouts
           Made(r, rule) == Scored(r, rule, score_rule(rule))
           Step(r) ==
              IF \/ StartsWithAny(r.fileline,
                                  {<<"/base/">> \o p : p \in RULE_IGNORE_PATHS})
                 \/ r.rule[1] \notin SUPPORTED_RULE_TYPES
              THEN UNCHANGED <<rk_scored, printouts>>
              ELSE Made(r, rule_factory(r.rule).rule)
       IN Step(rk_rules[rk_i + 1])
    /\ rk_i' = rk_i + 1
    /\ UNCHANGED <<rk_rules, rk_out, rk_pc>>

\* print("\n".join(sorted(printouts, ...)))
PrintReport ==
    /\ rk_pc = "score"
    /\ rk_i = Len(rk_rules)
    /\ rk_out' = SortedLines(printouts)
    /\ rk_pc' = "done"
    /\ UNCHANGED <<rk_rules, rk_i, rk_scored, printouts>>

(***************************************************************************)
(* plugins/risky_rules.py: score_avrule under any scoring system and any   *)
(* classification of the buckets.  The configuration is an input: a type may *)
(* be listed in several buckets of TYPES, and the loops over TYPES visit   *)
(* the buckets in the order of the dictionary.                             *)
(***************************************************************************)
SCORE_TRUST ==
    [security_sensitive |-> Fr(30, 1), user_app |-> Fr(0, 1),
     core_domains |-> Fr(10, 1), default_types |-> Fr(5, 1),
     sensitive |-> Fr(10, 1)]

SCORING_SYSTEMS == {"risk", "trust_hl", "trust_lh", "trust_hh", "trust_ll"}

\* (MAXIMUM_SCORE / 2) - SCORE_TRUST[crit]
Inverted(crit) == Fr(MAXIMUM_SCORE * SCORE_TRUST[crit].d - 2 * SCORE_TRUST[crit].n,
                     2 * SCORE_TRUST[crit].d)

\* The first loop of score_avrule: the first bucket in dictionary order
\* that lists the source gives the term, then the loop breaks
RECURSIVE MatchSource(_, _, _, _)
MatchSource(system, buckets, order, rule) ==
    IF order = <<>> THEN Fr(0, 1)
    ELSE IF rule.source \in buckets[Head(order)]
         THEN IF system = "risk" THEN SCORE_RISK[Head(order)]
              ELSE IF system \in {"trust_lh", "trust_ll"} THEN Inverted(Head(order))
              ELSE IF system \in {"trust_hl", "trust_hh"} THEN SCORE_TRUST[Head(order)]
              ELSE Fr(0, 1)
         ELSE MatchSource(system, buckets, Tail(order), rule)

\* The loop over TYPES of the risk branch for the target, with its break
RECURSIVE MatchTargetRisk(_, _, _)
MatchTargetRisk(buckets, order, rule) ==
    IF order = <<>> THEN Fr(0, 1)
    ELSE IF rule.target \in buckets[Head(order)] THEN SCORE_RISK[Head(order)]
    ELSE MatchTargetRisk(buckets, Tail(order), rule)

\* The loop over TYPES of the trust branch for the target: it has no break,
\* every bucket that lists the target adds its term
RECURSIVE MatchTargetTrust(_, _, _, _)
MatchTargetTrust(system, buckets, order, rule) ==
    IF order = <<>> THEN Fr(0, 1)
    ELSE FrAdd(IF rule.target \in buckets[Head(order)]
               THEN FrAdd(IF system \in {"trust_hl", "trust_ll"}
                          THEN Inverted(Head(order)) ELSE Fr(0, 1),
                          IF system \in {"trust_lh", "trust_hh"}
                          THEN SCORE_TRUST[Head(order)] ELSE Fr(0, 1))
               ELSE Fr(0, 1),
               MatchTargetTrust(system, buckets, Tail(order), rule))

\* score_avrule, the scoring system and the classification being arguments
score_avrule_with(system, buckets, order, rule) ==
    LET Times(score, ps) ==
            IF system # "risk" \/ ps = {} THEN score
            ELSE FrMul(score, CHOOSE x \in ps : \A y \in ps : ~FrLt(x, y))
        Normalised(score) == Fr(score.n, score.d * MAXIMUM_SCORE)
    IN Normalised(Times(FrAdd(MatchSource(system, buckets, order, rule),
                              IF system = "risk"
                              THEN IF rule.tclass \in {<<c>> : c \in CAPABILITIES}
                                   THEN SCORE[rule.tclass[1]]
                                   ELSE MatchTargetRisk(buckets, order, rule)
                              ELSE MatchTargetTrust(system, buckets, order, rule)),
                        PermScores(rule)))

\* The most buckets a type is listed in
MaxListed == 2

TrustBuckets == {"security_sensitive", "user_app", "core_domains"}

\* The orders in which the dictionary may yield its keys
BucketOrders ==
    {o \in [1..Cardinality(TrustBuckets) -> TrustBuckets] :
        \A i, j \in DOMAIN o : i # j => o[i] # o[j]}

\* The classifications: each of the two buckets of the rules is listed in at
\* most MaxListed buckets
Listings == {b \in SUBSET TrustBuckets : Cardinality(b) <= MaxListed}

Classification(bi, bt) ==
    [crit \in TrustBuckets |->
        (IF crit \in bi THEN {<<"init">>} ELSE {})
        \cup (IF crit \in bt THEN {<<"tee">>} ELSE {})]

TrustRules ==
    {[rtype |-> <<"allow">>, source |-> <<s>>, target |-> <<t>>,
      tclass |-> <<c>>, permset |-> {<<p>>}] :
        s \in {"init", "tee"}, t \in {"init", "tee"},
        c \in {"file", "capability"}, p \in {"write", "getattr"}}

VARIABLES tr_system, tr_types, tr_order, tr_rule, tr_score, tr_pc

trvars == <<tr_system, tr_types, tr_order, tr_rule, tr_score, tr_pc>>

TrustIdle ==
    /\ tr_system = "" /\ tr_types = <<>> /\ tr_order = <<>> /\ tr_rule = <<>>
    /\ tr_score = Fr(0, 1) /\ tr_pc = "idle"

InitTrust ==
    /\ tr_system \in SCORING_SYSTEMS
    /\ tr_types \in {Classification(bi, bt) : bi \in Listings, bt \in Listings}
    /\ tr_order \in BucketOrders
    /\ tr_rule \in TrustRules
    /\ tr_score = Fr(0, 1)
    /\ tr_pc = "score"

\* score = score_rule(rule) for an AV rule
ScoreAvRule ==
    /\ tr_pc = "score"
    /\ tr_score' = score_avrule_with(tr_system, tr_types, tr_order, tr_rule)
    /\ tr_pc' = "done"
    /\ UNCHANGED <<tr_system, tr_types, tr_order, tr_rule>>

(***************************************************************************)
(* plugins/user_neverallows.py: get_user_rules and main.  NEVERALLOWS is   *)
(* an input of the model, as is the mapping of the policy: a dictionary    *)
(* from the RUTC of a ground rule to the rules mapped under it.  The       *)
(* listed rules hold no macros, so expander.expand leaves them unchanged.  *)
(***************************************************************************)
\* SUPPORTED_RULE_TYPES of plugins/config/user_neverallows.py
SUPPORTED_NEVER_TYPES == {"allow"}

\* k[5:] on the key of a neverallow rule: the five characters of "never"
\* are dropped, which leaves "allow" at the head of a neverallow key
DropFive(k) ==
    IF k # <<>> /\ Head(k) = "neverallow" THEN <<"allow">> \o Tail(k) ELSE Tail(k)

\* The inner loop of get_user_rules over the expansion of one listed rule
UserRulesOf(resulting_rules, supplied_rules) ==
    Update(supplied_rules,
           [a \in {DropFive(kv[1]) : kv \in resulting_rules} |->
               rule_factory((CHOOSE kv \in resulting_rules : DropFive(kv[1]) = a)[2]).rule])

\* get_user_rules: [err, rules], rules being the dictionary {RUTC: AVRule}
RECURSIVE get_user_rules(_, _)
get_user_rules(listed, supplied_rules) ==
    IF listed = <<>> THEN [err |-> "", rules |-> supplied_rules]
    ELSE LET Go(resulting_rules) ==
                IF resulting_rules.err # ""
                THEN [err |-> resulting_rules.err, rules |-> <<>>]
                ELSE get_user_rules(Tail(listed),
                                    UserRulesOf(resulting_rules.rules, supplied_rules))
         IN Go(expand_rule(Head(listed)))

\* allowed_perms after the loop over the rules mapped under one RUTC
RECURSIVE AllowedPerms(_)
AllowedPerms(rls) ==
    IF rls = <<>> THEN {}
    ELSE rule_factory(Head(rls)).rule.permset \cup AllowedPerms(Tail(rls))

\* The most rules NEVERALLOWS lists
MaxNever == 2

NeverText(source, target, end) ==
    <<"neverallow", " ", source, " ", target, ":", "file", " ">> \o end \o <<";">>

AllowText(source, target, perm) ==
    <<"allow", " ", source, " ", target, ":", "file", " ", perm, ";">>

\* The rules NEVERALLOWS may list: two with the same source, target and
\* class, one over an attribute, one with a set of permissions
NeverRules ==
    {NeverText("a", "b", <<"write">>), NeverText("a", "b", <<"read">>),
     NeverText("at", "b", <<"open">>),
     NeverText("d", "t", <<"{", " ", "read", " ", "write", " ", "}">>)}

\* The ground rules the policy may hold
PolicyAllows ==
    {AllowText("a", "b", "write"), AllowText("a", "b", "read"),
     AllowText("b", "b", "open"), AllowText("d", "t", "open"),
     NeverText("a", "b", <<"write">>)}

\* policy.mapping.rules for a set of ground rules
RECURSIVE ListOf(_)
ListOf(S) ==
    IF S = {} THEN <<>>
    ELSE <<CHOOSE x \in S : TRUE>> \o ListOf(S \ {CHOOSE x \in S : TRUE})

MappingOf(ground) ==
    [k \in {rule_split_after_class(g).rutc : g \in ground} |->
        ListOf({g \in ground : rule_split_after_class(g).rutc = k})]

VARIABLES neverallows, nv_mapping, user_rules, nv_todo, nv_reports, nv_pc

nvvars == <<neverallows, nv_mapping, user_rules, nv_todo, nv_reports, nv_pc>>

NeverIdle ==
    /\ neverallows = <<>> /\ nv_mapping = <<>> /\ user_rules = <<>>
    /\ nv_todo = {} /\ nv_reports = {} /\ nv_pc = "idle"

InitNever ==
    /\ neverallows \in UNION {[1..n -> NeverRules] : n \in 0..MaxNever}
    /\ nv_mapping \in {MappingOf(g) : g \in SUBSET PolicyAllows}
    /\ user_rules = <<>>
    /\ nv_todo = {}
    /\ nv_reports = {}
    /\ nv_pc = "start"

\* user_rules = get_user_rules(policy._expander, mapper)
GetUserRules ==
    /\ nv_pc = "start"
    /\ LET Got(u) ==
              IF u.err # ""
              THEN /\ nv_pc' = "raised"
                   /\ UNCHANGED <<user_rules, nv_todo>>
              ELSE /\ user_rules' = u.rules
                   /\ nv_todo' = DOMAIN nv_mapping
                   /\ nv_pc' = "check"
       IN Got(get_user_rules(neverallows, <<>>))
    /\ UNCHANGED <<neverallows, nv_mapping, nv_reports>>

\* The body of the loop of main over the RUTCs of the mapping, taken in
\* the order of the dictionary
CheckRutc ==
    /\ nv_pc = "check"
    /\ \E rutc \in nv_todo :
          /\ nv_todo' = nv_todo \ {rutc}
          /\ LET Checked(allowed_perms) ==
                    IF allowed_perms \cap user_rules[rutc].permset # {}
                    THEN nv_reports' = nv_reports \cup
                            {[rutc |-> rutc,
                              neverallowed |-> allowed_perms \cap user_rules[rutc].permset,
                              allowed_perms |-> allowed_perms]}
                    ELSE UNCHANGED nv_reports
             IN IF rutc[1] \notin SUPPORTED_NEVER_TYPES \/ rutc \notin DOMAIN user_rules
                THEN UNCHANGED nv_reports
                ELSE Checked(AllowedPerms(nv_mapping[rutc]))
    /\ UNCHANGED <<neverallows, nv_mapping, user_rules, nv_pc>>

\* The loop of main is over
NeverDone ==
    /\ nv_pc = "check"
    /\ nv_todo = {}
    /\ nv_pc' = "done"
    /\ UNCHANGED <<neverallows, nv_mapping, user_rules, nv_todo, nv_reports>>

(***************************************************************************)
(* plugins/unnecessary_rules.py, functionality 3: accumulate_perms and the *)
(* loop of main over the RUTCs of the mapping.  accumulate_perms slices    *)
(* the text of a rule by the length of a RUTC, so the text of this part is *)
(* a sequence of characters.  REQUIRED_PERMS is an input of the model.     *)
(***************************************************************************)
Allow_ == <<"a", "l", "l", "o", "w">>

File_ == <<"f", "i", "l", "e">>

Fd_ == <<"f", "d">>

Dir_ == <<"d", "i", "r">>

Write_ == <<"w", "r", "i", "t", "e">>

Open_ == <<"o", "p", "e", "n">>

Use_ == <<"u", "s", "e">>

Search_ == <<"s", "e", "a", "r", "c", "h">>

Getattr_ == <<"g", "e", "t", "a", "t", "t", "r">>

\* FULL_IGNORE_PATHS hold the paths of RULE_IGNORE_PATHS; a fileline is
\* under one of them when it begins with the mark "!"
UnderIgnoredPath(fileline) == StartsWith(fileline, <<"!">>)

\* accumulate_perms(rutc, rules): [none, perms], none standing for None
RECURSIVE accumulate_perms(_, _, _)
accumulate_perms(rutc, rules, found_perms) ==
    IF rules = <<>> THEN [none |-> FALSE, perms |-> found_perms]
    ELSE IF UnderIgnoredPath(Head(rules).fileline)
    THEN [none |-> TRUE, perms |-> {}]
    ELSE accumulate_perms(
            rutc, Tail(rules),
            found_perms \cup
            Range(Split(Strip(SubSeq(Head(rules).rule, Len(rutc) + 1,
                                     Len(Head(rules).rule)),
                              {" ", "{", "}", ";"}))))

\* The loop over add_perms: all_extras_granted.  Every class of add_perms
\* is looked up under the source and target of the rule; the permissions
\* are accumulated with the RUTC of the rule itself, as main passes it
AllExtrasGranted(mapping, rutc, pre_cls, add_perms) ==
    \A k \in DOMAIN add_perms :
        LET new_rutc == pre_cls \o <<":">> \o k
            Granted(found_ap) == ~found_ap.none /\ add_perms[k] \subseteq found_ap.perms
        IN /\ new_rutc \in DOMAIN mapping
           /\ Granted(accumulate_perms(rutc, mapping[new_rutc], {}))

\* The body of the loop of main for one RUTC: TRUE when the rule is reported
Unnecessary(required, mapping, rutc) ==
    LET colon == Find(rutc, ":")
        pre_cls == SubSeq(rutc, 1, colon - 1)
        cls == SubSeq(rutc, colon + 1, Len(rutc))
        Report(perms, req_perms, add_perms, found_perms) ==
            /\ ~found_perms.none
            /\ found_perms.perms \cap perms # {}
            /\ ~(req_perms \subseteq found_perms.perms)
            /\ ~AllExtrasGranted(mapping, rutc, pre_cls, add_perms)
    IN /\ StartsWith(rutc, Allow_)
       /\ cls \in DOMAIN required
       /\ Report(required[cls][1], required[cls][2], required[cls][3],
                 accumulate_perms(rutc, mapping[rutc], {}))

\* The most rules the mapping holds
MaxReqRules == 3

\* REQUIRED_PERMS as shipped, and with dir search as the extra permission
RequiredConfs ==
    {(File_ :> <<{Write_, <<"r", "e", "a", "d">>}, {Open_}, (Fd_ :> {Use_})>>),
     (File_ :> <<{Write_, <<"r", "e", "a", "d">>}, {Open_}, (Dir_ :> {Search_})>>)}

ReqText(source, cls, perm) ==
    Allow_ \o <<" ", source, " ", "b", ":">> \o cls \o <<" ">> \o perm \o <<";">>

\* The mapped rules the policy may hold: ground rules with their origin
ReqRules ==
    {[rule |-> ReqText("a", File_, Write_), fileline |-> <<"v", ":", "1">>],
     [rule |-> ReqText("a", File_, Open_), fileline |-> <<"v", ":", "2">>],
     [rule |-> ReqText("a", File_, Getattr_), fileline |-> <<"!", ":", "1">>],
     [rule |-> ReqText("a", Fd_, Use_), fileline |-> <<"v", ":", "3">>],
     [rule |-> ReqText("a", Dir_, Search_), fileline |-> <<"v", ":", "4">>],
     [rule |-> ReqText("d", File_, Write_), fileline |-> <<"v", ":", "5">>],
     [rule |-> ReqText("d", Fd_, Use_), fileline |-> <<"v", ":", "6">>]}

\* The RUTC of a ground rule of this part
ReqRutc(rule) == SubSeq(rule, 1, Find(rule, ":") + Find(SubSeq(rule, Find(rule, ":") + 1, Len(rule)), " ") - 1)

\* policy.mapping.rules for a set of mapped rules
ReqMappingOf(mapped) ==
    [k \in {ReqRutc(m.rule) : m \in mapped} |->
        ListOf({m \in mapped : ReqRutc(m.rule) = k})]

VARIABLES REQUIRED_PERMS, rq_mapping, rq_todo, rq_reports, rq_pc

rqvars == <<REQUIRED_PERMS, rq_mapping, rq_todo, rq_reports, rq_pc>>

ReqIdle ==
    /\ REQUIRED_PERMS = <<>> /\ rq_mapping = <<>> /\ rq_todo = {}
    /\ rq_reports = {} /\ rq_pc = "idle"

InitReq ==
    /\ REQUIRED_PERMS \in RequiredConfs
    /\ rq_mapping \in {ReqMappingOf(m) : m \in {x \in SUBSET ReqRules :
                                                   Cardinality(x) <= MaxReqRules}}
    /\ rq_todo = DOMAIN rq_mapping
    /\ rq_reports = {}
    /\ rq_pc = "check"

\* The body of the loop of main over the RUTCs of the mapping, taken in
\* the order of the dictionary
CheckRequired ==
    /\ rq_pc = "check"
    /\ \E rutc \in rq_todo :
          /\ rq_todo' = rq_todo \ {rutc}
          /\ rq_reports' = IF Unnecessary(REQUIRED_PERMS, rq_mapping, rutc)
                           THEN rq_reports \cup {rutc}
                           ELSE rq_reports
    /\ UNCHANGED <<REQUIRED_PERMS, rq_mapping, rq_pc>>

\* The loop of main is over
RequiredDone ==
    /\ rq_pc = "check"
    /\ rq_todo = {}
    /\ rq_pc' = "done"
    /\ UNCHANGED <<REQUIRED_PERMS, rq_mapping, rq_todo, rq_reports>>

(***************************************************************************)
(* plugins/unnecessary_rules.py, functionality 1: the loop of main over    *)
(* the later rules of a tuple, for one policy rule that matched the first  *)
(* rule of the tuple and the arguments extracted from it.                  *)
(***************************************************************************)
\* substitute_args: every placeholder @@ARGn@@ is replaced by its value
substitute_args(rule, args) ==
    [i \in DOMAIN rule |-> IF rule[i] \in DOMAIN args THEN args[rule[i]] ELSE rule[i]]

\* nec_rule in policy.mapping.rules[nrfutc]: a string is looked up in a
\* list of MappedRule objects; MappedRule defines no __eq__, so an object
\* of the list is equal only to itself and never to the string
StrEqMapped(string, mapped) == FALSE

StrInMapped(nec_rule, rls) == \E i \in DOMAIN rls : StrEqMapped(nec_rule, rls[i])

\* permset after the loop over the rules mapped under nrfutc
RECURSIVE MappedPermset(_)
MappedPermset(rls) ==
    IF rls = <<>> THEN {}
    ELSE rule_factory(Head(rls).rule).rule.permset \cup MappedPermset(Tail(rls))

\* The body of the loop over t[1:]: missing_rules after each_rule
CheckNecessary(mapping, each_rule, args, missing) ==
    LET nec_rule == substitute_args(each_rule, args)
        Av(full, permset) ==
            IF ~(full.permset \subseteq permset)
            THEN Append(missing, [rule |-> nec_rule, missing |-> full.permset \ permset])
            ELSE missing
        Te(full) ==
            IF ~StrInMapped(nec_rule, mapping[up_to_class(full)])
            THEN Append(missing, [rule |-> nec_rule, missing |-> {}])
            ELSE missing
        Check(full) ==
            IF up_to_class(full) \in DOMAIN mapping
            THEN IF full.rtype \in {<<x>> : x \in AVRULES}
                 THEN Av(full, MappedPermset(mapping[up_to_class(full)]))
                 ELSE IF full.rtype \in {<<x>> : x \in TERULES} THEN Te(full)
                 ELSE missing
            ELSE Append(missing, [rule |-> nec_rule, missing |-> {}])
    IN IF each_rule[1] \notin ONLY_MAP_RULES THEN missing
       ELSE Check(rule_factory(nec_rule).rule)

\* The most rules the mapping holds besides the one that matched
MaxTupleRules == 3

TupleText(rtype, source, target, tclass, end) ==
    <<rtype, " ", source, " ", target, ":", tclass, " ">> \o end \o <<";">>

\* RULES_TUPLES: a tuple of the shipped shape, one whose later rules hold
\* a type transition, one with a later rule of an unmapped type
RULES_TUPLES ==
    {<<TupleText("type_transition", "@@ARG0@@", "@@ARG1@@", "process", <<"@@ARG2@@">>),
       TupleText("allow", "@@ARG0@@", "@@ARG1@@", "file",
                 <<"{", " ", "read", " ", "open", " ", "}">>),
       TupleText("allow", "@@ARG2@@", "@@ARG1@@", "file", <<"write">>)>>,
     <<TupleText("type_transition", "@@ARG0@@", "@@ARG1@@", "process", <<"@@ARG2@@">>),
       TupleText("type_transition", "@@ARG0@@", "@@ARG1@@", "file", <<"@@ARG2@@">>),
       TupleText("allow", "@@ARG0@@", "@@ARG1@@", "file", <<"read">>)>>,
     <<TupleText("type_transition", "@@ARG0@@", "@@ARG1@@", "process", <<"@@ARG2@@">>),
       TupleText("type_change", "@@ARG0@@", "@@ARG1@@", "file", <<"@@ARG2@@">>),
       TupleText("allow", "@@ARG2@@", "@@ARG1@@", "file", <<"write">>)>>}

\* The arguments extracted from the rule that matched the first rule
TupleArgs == ("@@ARG0@@" :> "a" @@ "@@ARG1@@" :> "b" @@ "@@ARG2@@" :> "d")

\* The rules the policy may hold besides the one that matched
TupleRules ==
    {TupleText("allow", "a", "b", "file", <<"read">>),
     TupleText("allow", "a", "b", "file", <<"open">>),
     TupleText("allow", "a", "b", "file", <<"{", " ", "open", " ", "write", " ", "}">>),
     TupleText("allow", "d", "b", "file", <<"write">>),
     TupleText("type_transition", "a", "b", "file", <<"d">>),
     TupleText("type_transition", "a", "b", "file", <<"t">>)}

\* policy.mapping.rules for a set of ground rules: several rules of one
\* RUTC come from different lines
TupleMappingOf(ground) ==
    [k \in {rule_split_after_class(g).rutc : g \in ground} |->
        LET List(l) == [i \in DOMAIN l |-> [rule |-> l[i],
                                            fileline |-> <<"/base/", "vendor/sepolicy", "/a.te", ":", Str(i)>>]]
        IN List(ListOf({g \in ground : rule_split_after_class(g).rutc = k}))]

VARIABLES ut_tuple, ut_mapping, ut_i, missing_rules, ut_pc

utvars == <<ut_tuple, ut_mapping, ut_i, missing_rules, ut_pc>>

TupleIdle ==
    /\ ut_tuple = <<>> /\ ut_mapping = <<>> /\ ut_i = 0 /\ missing_rules = <<>>
    /\ ut_pc = "idle"

InitTuple ==
    /\ ut_tuple \in RULES_TUPLES
    /\ ut_mapping \in
          {TupleMappingOf(g \cup {substitute_args(ut_tuple[1], TupleArgs)}) :
              g \in {x \in SUBSET TupleRules : Cardinality(x) <= MaxTupleRules}}
    /\ ut_i = 1
    /\ missing_rules = <<>>
    /\ ut_pc = "check"

\* The body of the loop over the later rules of the tuple
CheckEachRule ==
    /\ ut_pc = "check"
    /\ ut_i < Len(ut_tuple)
    /\ missing_rules' = CheckNecessary(ut_mapping, ut_tuple[ut_i + 1], TupleArgs,
                                       missing_rules)
    /\ ut_i' = ut_i + 1
    /\ UNCHANGED <<ut_tuple, ut_mapping, ut_pc>>

\* if missing_rules: the report of the rule is printed
ReportMissing ==
    /\ ut_pc = "check"
    /\ ut_i = Len(ut_tuple)
    /\ ut_pc' = "done"
    /\ UNCHANGED <<ut_tuple, ut_mapping, ut_i, missing_rules>>

(***************************************************************************)
(* Mapper.get_rule_blocks, one character at a time: the checks before the  *)
(* loop, the body of the loop for each character, and the lines after it.  *)
(***************************************************************************)
\* The longest text after the rule type
MaxScanLen == 5

ScanSymbols == {"a", " ", "{", "}", "~"}

\* The rules scanned: a rule type followed by any text over ScanSymbols
ScanRules ==
    {<<"allow", " ">> \o body :
        body \in UNION {[1..n -> ScanSymbols] : n \in 0..MaxScanLen}}

VARIABLES gs_rule, gs_chars, gs_st, gs_out, gs_pc

gsvars == <<gs_rule, gs_chars, gs_st, gs_out, gs_pc>>

NoScan == [nest_lvl |-> 0, block |-> <<>>, blocks |-> <<>>,
           complement_next_block |-> FALSE, err |-> ""]

ScanIdle ==
    /\ gs_rule = <<>> /\ gs_chars = <<>> /\ gs_st = NoScan /\ gs_out = <<>>
    /\ gs_pc = "idle"

InitScan ==
    /\ gs_rule \in ScanRules
    /\ gs_chars = <<>>
    /\ gs_st = NoScan
    /\ gs_out = <<>>
    /\ gs_pc = "start"

\* The lines before the loop: the count of the brackets, the split of the
\* rule type, and the text the loop goes over
StartScan ==
    /\ gs_pc = "start"
    /\ IF Count(gs_rule, "{") # Count(gs_rule, "}") \/ Find(gs_rule, " ") = 0
       THEN /\ gs_pc' = "raised"
            /\ UNCHANGED <<gs_chars, gs_st>>
       ELSE /\ gs_pc' = "scan"
            /\ gs_st' = [NoScan EXCEPT
                            !.blocks = <<SubSeq(gs_rule, 1, Find(gs_rule, " ") - 1)>>]
            /\ gs_chars' = Replace(RStrip(SubSeq(gs_rule, Find(gs_rule, " ") + 1,
                                                 Len(gs_rule)), {";"}), ":", " ")
    /\ UNCHANGED <<gs_rule, gs_out>>

\* One iteration of the loop
ScanChar ==
    /\ gs_pc = "scan"
    /\ gs_chars # <<>>
    /\ LET Stepped(st) ==
              /\ gs_st' = st
              /\ gs_pc' = IF st.err # "" THEN "raised" ELSE "scan"
       IN Stepped(ScanStep(gs_st, Head(gs_chars)))
    /\ gs_chars' = Tail(gs_chars)
    /\ UNCHANGED <<gs_rule, gs_out>>

\* The lines after the loop: the last block is added and the blocks returned
ReturnBlocks ==
    /\ gs_pc = "scan"
    /\ gs_chars = <<>>
    /\ gs_out' = IF gs_st.block # <<>>
                 THEN Append(gs_st.blocks, Strip(gs_st.block, {" "}))
                 ELSE gs_st.blocks
    /\ gs_pc' = "done"
    /\ UNCHANGED <<gs_rule, gs_chars, gs_st>>

(***************************************************************************)
(* Mapper.get_rule_blocks and AVRule.__init__ on ground AV rules written   *)
(* with any spacing and any permission block, and on the rule rebuilt from *)
(* the blocks.                                                             *)
(***************************************************************************)
\* The longest permission block
MaxPermLen == 6

PermSymbols == {"read", "write", " ", "{", "}"}

\* The permission blocks: a name is one symbol, so no two names are adjacent
PermTexts ==
    {t \in UNION {[1..n -> PermSymbols] : n \in 1..MaxPermLen} :
        \A i \in 1..(Len(t) - 1) :
            ~(t[i] \in {"read", "write"} /\ t[i + 1] \in {"read", "write"})}

\* The ways the fields before the permissions are written
RulePrefixes ==
    {<<"allow", " ", "a", " ", "b", ":", "file", " ">>,
     <<"allow", " ", "a", " ", " ", "b", ":", "file", " ", " ">>,
     <<"allow", " ", "a", " ", "b", " ", ":", " ", "file", " ">>}

RoundRules == {p \o t \o <<";">> : p \in RulePrefixes, t \in PermTexts}

\* "rtype source target:class perms;" from five blocks
Reassembled(blocks) ==
    blocks[1] \o <<" ">> \o blocks[2] \o <<" ">> \o blocks[3] \o <<":">>
        \o blocks[4] \o <<" ">> \o blocks[5] \o <<";">>

VARIABLES rt_rule, rt_first, rt_again, rt_pc

rtvars == <<rt_rule, rt_first, rt_again, rt_pc>>

NoTokens == [blocks |-> <<>>, err |-> "", rule |-> <<>>]

RoundIdle ==
    /\ rt_rule = <<>> /\ rt_first = NoTokens /\ rt_again = NoTokens /\ rt_pc = "idle"

InitRound ==
    /\ rt_rule \in RoundRules
    /\ rt_first = NoTokens
    /\ rt_again = NoTokens
    /\ rt_pc = "start"

\* The blocks of a text and the rule rule_factory builds from it
Tokens(string) ==
    LET Built(b, f) ==
            [blocks |-> b.blocks,
             err |-> IF b.err # "" THEN b.err ELSE f.err,
             rule |-> f.rule]
    IN Built(get_rule_blocks(string), rule_factory(string))

\* get_rule_blocks(R) and the AVRule of R
Tokenize ==
    /\ rt_pc = "start"
    /\ rt_first' = Tokens(rt_rule)
    /\ rt_pc' = IF Tokens(rt_rule).err # "" THEN "invalid" ELSE "first"
    /\ UNCHANGED <<rt_rule, rt_again>>

\* get_rule_blocks and the AVRule of the rule rebuilt from the blocks
TokenizeAgain ==
    /\ rt_pc = "first"
    /\ rt_again' = Tokens(Reassembled(rt_first.blocks))
    /\ rt_pc' = "done"
    /\ UNCHANGED <<rt_rule, rt_first>>

(***************************************************************************)
(* plugins/global_macros.py: main.  mapping.rules is the list gm_rules of  *)
(* the RUTCs in the order the dictionary is iterated; each holds its rule  *)
(* type and its rules, a rule being the line it comes from and its         *)
(* permissions.  A line is a file:line string, GmIgnoredLine being one     *)
(* under RULE_IGNORE_PATHS.  cached_fits holds, for a permission set, the  *)
(* very objects fit returned: copy.copy of a tuple returns the tuple, and  *)
(* its members are the winner and the partial list themselves, so what     *)
(* main removes from winner is removed from the cached winner.             *)
(***************************************************************************)
MaxGmRutcs == 2

MaxGmRules == 2

GmLines == {"a.te:1", "a.te:2"}

GmIgnoredLine == "external/sepolicy/b.te:1"

\* macroset_dict and the order in which it is iterated
macroset_dict == [r |-> r_file_perms, w |-> w_file_perms]

macroset_order == <<"r", "w">>

\* plugin_conf.USAGES_IGNORE
USAGES_IGNORE == {}

\* x.score >= plugin_conf.SUGGESTION_THRESHOLD, the threshold being 0.8
AboveThreshold(x) == 5 * x.score[1] >= 4 * x.score[2]

SUGGESTION_MAX_NO == 3

\* The macros used on one line: names of global macros, or "other" for a
\* macro defined elsewhere
GmUsages == {<<"r">>, <<"other">>}

GmRuleSet ==
    {[fileline |-> l, perms |-> p] : l \in GmLines, p \in {r_file_perms, w_file_perms}}
    \cup {[fileline |-> GmIgnoredLine, perms |-> r_file_perms]}

GmRutcs ==
    {[rtype |-> "allow", rules |-> rs] :
        rs \in UNION {[1..n -> GmRuleSet] : n \in 1..MaxGmRules}}
    \cup {[rtype |-> "neverallow",
           rules |-> <<[fileline |-> "a.te:1", perms |-> r_file_perms]>>]}

\* "for r in rules: if not r.fileline.startswith(FULL_IGNORE_PATHS)"
NotIgnored(r) == r.fileline # GmIgnoredLine

\* The loop over filtered_rules that checks the winner, lines 148-177:
\* returns the winner as the loop leaves it and suggest_this
RECURSIVE CheckWinner(_, _, _)
CheckWinner(filtered_rules, usages, winner) ==
    IF filtered_rules = <<>> THEN [winner |-> winner, suggest_this |-> TRUE]
    ELSE LET r == Head(filtered_rules)
         IN  IF r.fileline \notin DOMAIN usages
             THEN CheckWinner(Tail(filtered_rules), usages, winner)
             ELSE LET macros_at_line == usages[r.fileline]
                      alreadyused == {x \in winner : x.name \in Range(macros_at_line)}
                      left == winner \ alreadyused
                  IN  IF "other" \in Range(macros_at_line)
                      THEN [winner |-> winner, suggest_this |-> FALSE]
                      ELSE IF left = {}
                      THEN [winner |-> left, suggest_this |-> FALSE]
                      ELSE CheckWinner(Tail(filtered_rules), usages, left)

\* sorted(..., reverse=True)[:n] of a list of RichSets: a stable sort by
\* falling score
RECURSIVE TopByScore(_, _)
TopByScore(list, n) ==
    IF n = 0 \/ list = <<>> THEN <<>>
    ELSE LET Better(i, j) == list[i].score[1] * list[j].score[2]
                               > list[j].score[1] * list[i].score[2]
             best == CHOOSE i \in DOMAIN list :
                        /\ \A j \in DOMAIN list : ~Better(j, i)
                        /\ \A j \in 1..(i - 1) : Better(i, j)
             rest == [k \in 1..(Len(list) - 1) |->
                         IF k < best THEN list[k] ELSE list[k + 1]]
         IN  <<list[best]>> \o TopByScore(rest, n - 1)

\* GlobalMacroSuggestion
GlobalMacroSuggestion(x, rules, rutc, permset) ==
    [name |-> x.name, macro_perms |-> x.values, score |-> x.score,
     filelines |-> {r.fileline : r \in Range(rules)},
     applies_to |-> rutc, original_permset |-> permset]

\* "if g.filelines not in suggestions: ... elif g not in ...: append", for
\* the suggestions of the list gs, which all have the same filelines
RECURSIVE AddSuggestions(_, _)
AddSuggestions(sugg, gs) ==
    IF gs = <<>> THEN sugg
    ELSE LET g == Head(gs)
             next == IF g.filelines \notin DOMAIN sugg
                     THEN [k \in DOMAIN sugg \cup {g.filelines} |->
                              IF k = g.filelines THEN <<g>> ELSE sugg[k]]
                     ELSE IF \E i \in DOMAIN sugg[g.filelines] :
                                 sugg[g.filelines][i].name = g.name
                     THEN sugg
                     ELSE [sugg EXCEPT ![g.filelines] = Append(@, g)]
         IN  AddSuggestions(next, Tail(gs))

VARIABLES
    gm_rules,          \* policy.mapping.rules, in iteration order
    macrousages_dict,  \* line -> the macros used on it
    cached_fits,       \* permission set -> [winner, part]
    gm_i,              \* the RUTC the loop is at
    gm_winner,         \* per RUTC fitted: the winner it received
    gm_suggestions,    \* suggestions
    gm_out,            \* what is printed, per set of lines
    gm_pc              \* "idle", "loop", "print", "done"

gmvars == <<gm_rules, macrousages_dict, cached_fits, gm_i, gm_winner,
            gm_suggestions, gm_out, gm_pc>>

GlobalIdle ==
    /\ gm_rules = <<>> /\ macrousages_dict = <<>> /\ cached_fits = <<>>
    /\ gm_i = 0 /\ gm_winner = <<>> /\ gm_suggestions = <<>> /\ gm_out = <<>>
    /\ gm_pc = "idle"

InitGlobal ==
    /\ gm_rules \in UNION {[1..n -> GmRutcs] : n \in 1..MaxGmRutcs}
    /\ macrousages_dict \in UNION {[ls -> GmUsages] : ls \in SUBSET GmLines}
    /\ cached_fits = <<>>
    /\ gm_i = 1
    /\ gm_winner = <<>>
    /\ gm_suggestions = <<>>
    /\ gm_out = <<>>
    /\ gm_pc = "loop"

\* The permission set merged from the rules kept, lines 113-124
GmFiltered(rutc) == SelectSeq(rutc.rules, NotIgnored)

GmPermset(rutc) == UNION {r.perms : r \in Range(GmFiltered(rutc))}

\* One iteration of "for rutc in policy.mapping.rules" that is skipped
SkipRutc ==
    /\ gm_pc = "loop" /\ gm_i <= Len(gm_rules)
    /\ \/ gm_rules[gm_i].rtype # "allow"
       \/ GmFiltered(gm_rules[gm_i]) = <<>>
       \/ GmPermset(gm_rules[gm_i]) = {}
    /\ gm_i' = gm_i + 1
    /\ UNCHANGED <<gm_rules, macrousages_dict, cached_fits, gm_winner,
                   gm_suggestions, gm_out, gm_pc>>

\* One iteration of "for rutc in policy.mapping.rules" that fits the
\* permission set, lines 134-221
FitRutc ==
    /\ gm_pc = "loop" /\ gm_i <= Len(gm_rules)
    /\ gm_rules[gm_i].rtype = "allow"
    /\ GmFiltered(gm_rules[gm_i]) # <<>>
    /\ GmPermset(gm_rules[gm_i]) # {}
    /\ LET filtered_rules == GmFiltered(gm_rules[gm_i])
           permset == GmPermset(gm_rules[gm_i])
           got == IF permset \in DOMAIN cached_fits
                  THEN cached_fits[permset]
                  ELSE fit(macroset_dict, macroset_order, permset)
           checked == CheckWinner(filtered_rules, macrousages_dict, got.winner)
           full == IF got.winner # {} /\ checked.suggest_this
                   THEN ListOf({GlobalMacroSuggestion(x, filtered_rules, gm_i, permset) :
                                   x \in {y \in checked.winner : y.name \notin USAGES_IGNORE}})
                   ELSE <<>>
           Selected(x) == AboveThreshold(x) /\ x.name \notin USAGES_IGNORE
           sgs == IF /\ got.part # <<>>
                     /\ \A r \in Range(filtered_rules) :
                           r.fileline \notin DOMAIN macrousages_dict
                  THEN TopByScore(SelectSeq(got.part, Selected), SUGGESTION_MAX_NO)
                  ELSE <<>>
           close == [i \in DOMAIN sgs |->
                        GlobalMacroSuggestion(sgs[i], filtered_rules, gm_i, permset)]
       IN  /\ gm_winner' = [k \in DOMAIN gm_winner \cup {gm_i} |->
                               IF k = gm_i THEN got.winner ELSE gm_winner[k]]
           /\ cached_fits' = [k \in DOMAIN cached_fits \cup {permset} |->
                                 IF k = permset
                                 THEN [winner |-> checked.winner, part |-> got.part]
                                 ELSE cached_fits[k]]
           /\ gm_suggestions' = AddSuggestions(AddSuggestions(gm_suggestions, full), close)
    /\ gm_i' = gm_i + 1
    /\ UNCHANGED <<gm_rules, macrousages_dict, gm_out, gm_pc>>

\* The end of the loop
EndRutcs ==
    /\ gm_pc = "loop" /\ gm_i > Len(gm_rules)
    /\ gm_pc' = "print"
    /\ UNCHANGED <<gm_rules, macrousages_dict, cached_fits, gm_i, gm_winner,
                   gm_suggestions, gm_out>>

\* "Print the suggestions", lines 223-260: per set of lines the names of the
\* full matches, the permissions they leave out, and the partial matches
PrintSuggestions ==
    /\ gm_pc = "print"
    /\ gm_out' =
          [k \in DOMAIN gm_suggestions |->
              LET sgs == gm_suggestions[k]
                  IsFull(x) == ScoreIsOne(x)
                  IsPart(x) == ~ScoreIsOne(x)
                  full == SelectSeq(sgs, IsFull)
                  part == TopByScore(SelectSeq(sgs, IsPart), Len(sgs))
              IN  [full |-> [i \in DOMAIN full |-> full[i].name],
                   extra_perms |->
                       IF full = <<>> THEN {}
                       ELSE full[1].original_permset
                            \ UNION {full[i].macro_perms : i \in DOMAIN full},
                   part |-> [i \in DOMAIN part |-> part[i].name]]]
    /\ gm_pc' = "done"
    /\ UNCHANGED <<gm_rules, macrousages_dict, cached_fits, gm_i, gm_winner,
                   gm_suggestions>>

(***************************************************************************)
(* expand_block applied, for role type, to the complement of a block and   *)
(* to the block itself.  The block is one atom (a type or an attribute) or *)
(* a brace set of distinct atoms, none subtracted.                         *)
(***************************************************************************)
PairInputs ==
    {[braces |-> TRUE, atoms |-> q] :
        q \in DistinctSeqs([neg : {FALSE}, name : RoleAtoms("type")], MaxAtoms)}
    \cup
    {[braces |-> FALSE, atoms |-> q] :
        q \in DistinctSeqs([neg : {FALSE}, name : RoleAtoms("type")], 1)}

\* The block B and its complement ~B as written
PlainText(in) ==
    IF in.braces THEN SetBlockText(in.atoms) ELSE AtomWord(in.atoms[1])

VARIABLES
    cb_in,          \* [braces, atoms]
    cb_neg,         \* the value expand_block returned for ~B
    cb_pos,         \* the value expand_block returned for B
    cb_pc           \* "idle", "neg", "pos", "done"

cbvars == <<cb_in, cb_neg, cb_pos, cb_pc>>

PairIdle == cb_in = <<>> /\ cb_neg = <<>> /\ cb_pos = <<>> /\ cb_pc = "idle"

InitPair ==
    /\ cb_in \in PairInputs
    /\ cb_neg = <<>>
    /\ cb_pos = <<>>
    /\ cb_pc = "neg"

ExpandComplement ==
    /\ cb_pc = "neg"
    /\ cb_neg' = expand_block(ComplementBlockText(cb_in.atoms, cb_in.braces), "type", <<>>)
    /\ cb_pc' = "pos"
    /\ UNCHANGED <<cb_in, cb_pos>>

ExpandPlain ==
    /\ cb_pc = "pos"
    /\ cb_pos' = expand_block(PlainText(cb_in), "type", <<>>)
    /\ cb_pc' = "done"
    /\ UNCHANGED <<cb_in, cb_neg>>

(***************************************************************************)
(* The specifications.                                                     *)
(***************************************************************************)
\* The variables of the components added after the first four, the state
\* in which all of them but component c are idle, and the step that leaves
\* all of them but component c unchanged
vars2 == <<extvars, sugvars, m4vars, spvars, mcvars, tevars, rkvars, trvars, nvvars, rqvars, utvars, gsvars, rtvars, gmvars, cbvars>>

Idle2(c) ==
    /\ IF c = "ext" THEN TRUE ELSE ExtIdle
    /\ IF c = "sug" THEN TRUE ELSE SugIdle
    /\ IF c = "m4" THEN TRUE ELSE M4Idle
    /\ IF c = "split" THEN TRUE ELSE SplitIdle
    /\ IF c = "call" THEN TRUE ELSE CallIdle
    /\ IF c = "te" THEN TRUE ELSE TeIdle
    /\ IF c = "risk" THEN TRUE ELSE RiskIdle
    /\ IF c = "trust" THEN TRUE ELSE TrustIdle
    /\ IF c = "never" THEN TRUE ELSE NeverIdle
    /\ IF c = "req" THEN TRUE ELSE ReqIdle
    /\ IF c = "tuple" THEN TRUE ELSE TupleIdle
    /\ IF c = "scan" THEN TRUE ELSE ScanIdle
    /\ IF c = "round" THEN TRUE ELSE RoundIdle
    /\ IF c = "global" THEN TRUE ELSE GlobalIdle
    /\ IF c = "pair" THEN TRUE ELSE PairIdle

Frame2(c) ==
    /\ IF c = "ext" THEN TRUE ELSE UNCHANGED extvars
    /\ IF c = "sug" THEN TRUE ELSE UNCHANGED sugvars
    /\ IF c = "m4" THEN TRUE ELSE UNCHANGED m4vars
    /\ IF c = "split" THEN TRUE ELSE UNCHANGED spvars
    /\ IF c = "call" THEN TRUE ELSE UNCHANGED mcvars
    /\ IF c = "te" THEN TRUE ELSE UNCHANGED tevars
    /\ IF c = "risk" THEN TRUE ELSE UNCHANGED rkvars
    /\ IF c = "trust" THEN TRUE ELSE UNCHANGED trvars
    /\ IF c = "never" THEN TRUE ELSE UNCHANGED nvvars
    /\ IF c = "req" THEN TRUE ELSE UNCHANGED rqvars
    /\ IF c = "tuple" THEN TRUE ELSE UNCHANGED utvars
    /\ IF c = "scan" THEN TRUE ELSE UNCHANGED gsvars
    /\ IF c = "round" THEN TRUE ELSE UNCHANGED rtvars
    /\ IF c = "global" THEN TRUE ELSE UNCHANGED gmvars
    /\ IF c = "pair" THEN TRUE ELSE UNCHANGED cbvars

vars == <<mapvars, blkvars, fitvars, qvars, vars2>>

MapIdle ==
    /\ mapping_rules = <<>> /\ mapping_lines = <<>> /\ group = <<>>
    /\ current_file = "" /\ current_line = 0
    /\ previous_line_is_syncline = FALSE /\ pc = "idle" /\ nread = 0
    /\ last = <<>> /\ sync = <<>>

Idle1 == MapIdle /\ BlkIdle /\ FitIdle /\ QIdle

\* Mapper.get_mapping over any policy.conf of at most MaxLines lines
Init == InitMap /\ BlkIdle /\ FitIdle /\ QIdle /\ Idle2("")

Next ==
    \/ \E line \in FileLines : ReadLine(line) /\ UNCHANGED <<blkvars, fitvars, qvars, vars2>>
    \/ ReturnMapping /\ UNCHANGED <<blkvars, fitvars, qvars, vars2>>

Spec == Init /\ [][Next]_vars

\* Mapper.expand_block on any block of BlockInputs
InitB == InitBlock /\ MapIdle /\ FitIdle /\ QIdle /\ Idle2("")

NextB == ExpandBlock /\ UNCHANGED <<mapvars, fitvars, qvars, vars2>>

SpecBlock == InitB /\ [][NextB]_vars

\* SetFitter.fit on any dictionary and target set of the model
InitF == InitFit /\ MapIdle /\ BlkIdle /\ QIdle /\ Idle2("")

NextF == Fit /\ UNCHANGED <<mapvars, blkvars, qvars, vars2>>

SpecFit == InitF /\ [][NextF]_vars

\* query_for_rule on any policy rule, placeholder and origins of the model
InitQ == InitQuery /\ MapIdle /\ BlkIdle /\ FitIdle /\ Idle2("")

NextQ == QueryForRule /\ UNCHANGED <<mapvars, blkvars, fitvars, vars2>>

SpecQuery == InitQ /\ [][NextQ]_vars

\* ArgExtractor.extract on any placeholder rule and policy rule of the model
InitE == InitExtract /\ Idle1 /\ Idle2("ext")

NextE == Extract /\ UNCHANGED <<mapvars, blkvars, fitvars, qvars>> /\ Frame2("ext")

SpecExtract == InitE /\ [][NextE]_vars

\* te_macros.main over the macros, policies and origins of the model
InitS == InitSug /\ Idle1 /\ Idle2("sug")

NextS ==
    \/ ProcessMacro /\ UNCHANGED <<mapvars, blkvars, fitvars, qvars>> /\ Frame2("sug")
    \/ \E sug \in macro_suggestions :
          FitSuggestion(sug) /\ UNCHANGED <<mapvars, blkvars, fitvars, qvars>> /\ Frame2("sug")
    \/ EndMacro /\ UNCHANGED <<mapvars, blkvars, fitvars, qvars>> /\ Frame2("sug")
    \/ Dedup /\ UNCHANGED <<mapvars, blkvars, fitvars, qvars>> /\ Frame2("sug")

SpecSug == InitS /\ [][NextS]_vars

\* The same loop as it runs.  The plugin is sequential code: whichever step
\* it has is taken, so every action is weakly fair.  For the iteration of
\* the fitting loop the fairness condition is written out, with the guard of
\* the action (a suggestion is left to pop) as its enabling condition
FitEnabled == sg_pc = "fit" /\ macro_suggestions # {}

FitAny == \E sug \in macro_suggestions : FitSuggestion(sug)

SpecSugLive ==
    /\ InitS /\ [][NextS]_vars
    /\ WF_sugvars(ProcessMacro) /\ WF_sugvars(EndMacro) /\ WF_sugvars(Dedup)
    /\ ([]<>~FitEnabled \/ []<><<FitAny>>_sugvars)

\* The life of an M4MacroExpander and the calls of M4Macro.expand on it
InitM == InitM4 /\ Idle1 /\ Idle2("m4")

NextM ==
    \/ \E freeze \in {"ok", "fail", "partial"} :
          Construct(freeze) /\ UNCHANGED <<mapvars, blkvars, fitvars, qvars>> /\ Frame2("m4")
    \/ \E args \in CallArgs :
          ExpandMacro(args) /\ UNCHANGED <<mapvars, blkvars, fitvars, qvars>> /\ Frame2("m4")
    \/ Teardown /\ UNCHANGED <<mapvars, blkvars, fitvars, qvars>> /\ Frame2("m4")

SpecM4 == InitM /\ [][NextM]_vars

\* SourcePolicy.__split_macro_usage_args__ on any argument string of the model
InitP == InitSplit /\ Idle1 /\ Idle2("split")

NextP == SplitArgs /\ UNCHANGED <<mapvars, blkvars, fitvars, qvars>> /\ Frame2("split")

SpecSplit == InitP /\ [][NextP]_vars

\* MacroInPolicy.__init__ on any values of the model
InitC == InitCall /\ Idle1 /\ Idle2("call")

NextC == NewMacroInPolicy /\ UNCHANGED <<mapvars, blkvars, fitvars, qvars>> /\ Frame2("call")

SpecCall == InitC /\ [][NextC]_vars

\* SourcePolicy.__find_macro_usages__ over any TE file of the model
InitT == InitTe /\ Idle1 /\ Idle2("te")

NextT ==
    \/ FindInLine /\ UNCHANGED <<mapvars, blkvars, fitvars, qvars>> /\ Frame2("te")
    \/ ReturnUsages /\ UNCHANGED <<mapvars, blkvars, fitvars, qvars>> /\ Frame2("te")

SpecUsages == InitT /\ [][NextT]_vars

\* risky_rules.main over any mapping of at most MaxRiskRules rules
InitR == InitRisk /\ Idle1 /\ Idle2("risk")

NextR ==
    \/ ScoreNext /\ UNCHANGED <<mapvars, blkvars, fitvars, qvars>> /\ Frame2("risk")
    \/ PrintReport /\ UNCHANGED <<mapvars, blkvars, fitvars, qvars>> /\ Frame2("risk")

SpecRisk == InitR /\ [][NextR]_vars

\* risky_rules.score_avrule under any scoring system and classification
InitU == InitTrust /\ Idle1 /\ Idle2("trust")

NextU == ScoreAvRule /\ UNCHANGED <<mapvars, blkvars, fitvars, qvars>> /\ Frame2("trust")

SpecTrust == InitU /\ [][NextU]_vars

\* user_neverallows.main over any list of at most MaxNever rules
InitN == InitNever /\ Idle1 /\ Idle2("never")

NextN ==
    \/ GetUserRules /\ UNCHANGED <<mapvars, blkvars, fitvars, qvars>> /\ Frame2("never")
    \/ CheckRutc /\ UNCHANGED <<mapvars, blkvars, fitvars, qvars>> /\ Frame2("never")
    \/ NeverDone /\ UNCHANGED <<mapvars, blkvars, fitvars, qvars>> /\ Frame2("never")

SpecNever == InitN /\ [][NextN]_vars

\* unnecessary_rules.main, functionality 3, over any mapping of at most MaxReqRules rules
InitY == InitReq /\ Idle1 /\ Idle2("req")

NextY ==
    \/ CheckRequired /\ UNCHANGED <<mapvars, blkvars, fitvars, qvars>> /\ Frame2("req")
    \/ RequiredDone /\ UNCHANGED <<mapvars, blkvars, fitvars, qvars>> /\ Frame2("req")

SpecRequired == InitY /\ [][NextY]_vars

\* unnecessary_rules.main, functionality 1, for one matched rule of any tuple
InitV == InitTuple /\ Idle1 /\ Idle2("tuple")

NextV ==
    \/ CheckEachRule /\ UNCHANGED <<mapvars, blkvars, fitvars, qvars>> /\ Frame2("tuple")
    \/ ReportMissing /\ UNCHANGED <<mapvars, blkvars, fitvars, qvars>> /\ Frame2("tuple")

SpecTuples == InitV /\ [][NextV]_vars

\* Mapper.get_rule_blocks over any text of at most MaxScanLen symbols
InitG == InitScan /\ Idle1 /\ Idle2("scan")

NextG ==
    \/ StartScan /\ UNCHANGED <<mapvars, blkvars, fitvars, qvars>> /\ Frame2("scan")
    \/ ScanChar /\ UNCHANGED <<mapvars, blkvars, fitvars, qvars>> /\ Frame2("scan")
    \/ ReturnBlocks /\ UNCHANGED <<mapvars, blkvars, fitvars, qvars>> /\ Frame2("scan")

SpecScan == InitG /\ [][NextG]_vars

\* The tokenization of a ground AV rule and of the rule rebuilt from its blocks
InitO == InitRound /\ Idle1 /\ Idle2("round")

NextO ==
    \/ Tokenize /\ UNCHANGED <<mapvars, blkvars, fitvars, qvars>> /\ Frame2("round")
    \/ TokenizeAgain /\ UNCHANGED <<mapvars, blkvars, fitvars, qvars>> /\ Frame2("round")

SpecRound == InitO /\ [][NextO]_vars

\* global_macros main on any list of RUTCs of the model
InitH == InitGlobal /\ Idle1 /\ Idle2("global")

NextH ==
    \/ SkipRutc /\ UNCHANGED <<mapvars, blkvars, fitvars, qvars>> /\ Frame2("global")
    \/ FitRutc /\ UNCHANGED <<mapvars, blkvars, fitvars, qvars>> /\ Frame2("global")
    \/ EndRutcs /\ UNCHANGED <<mapvars, blkvars, fitvars, qvars>> /\ Frame2("global")
    \/ PrintSuggestions /\ UNCHANGED <<mapvars, blkvars, fitvars, qvars>> /\ Frame2("global")

SpecGlobal == InitH /\ [][NextH]_vars

\* expand_block on a block and on its complement
InitK == InitPair /\ Idle1 /\ Idle2("pair")

NextK ==
    \/ ExpandComplement /\ UNCHANGED <<mapvars, blkvars, fitvars, qvars>> /\ Frame2("pair")
    \/ ExpandPlain /\ UNCHANGED <<mapvars, blkvars, fitvars, qvars>> /\ Frame2("pair")

SpecPair == InitK /\ [][NextK]_vars


(***************************************************************************)
(* Properties of Mapper.get_mapping (specification Spec).                  *)
(***************************************************************************)
\* The last iteration of the loop expanded a rule and recorded it
Mapped == last.rule # <<>> /\ last.err = ""

\* len(classes) * len(subjects) * len(objects) of the expanded blocks
CrossCard(rule) ==
    LET b == get_rule_blocks(rule).blocks
    IN  Len(expand_block(b[4], "class", <<>>).options)
        * Len(expand_block(b[2], "type", <<>>).options)
        * Len(expand_block(b[3], "type", <<>>).options)

\* C1: when get_mapping has expanded a supported source rule, every RUTC of
\* the expansion is a key of Mapping.rules, the number of MappedRules
\* appended equals the size of the cross product of the expanded class,
\* source and target blocks, and each of them carries the rule's file:line.
C1_ExpansionComplete ==
    Mapped =>
        /\ last.keys \subseteq DOMAIN mapping_rules
        /\ last.appended = CrossCard(last.rule)
        /\ \A k \in last.keys :
              mapping_rules[k][Len(mapping_rules[k])].fileline = last.fileline

\* The target block of a rule is the word self
TargetIsSelf(rule) == get_rule_blocks(rule).blocks[3] = <<"self">>

\* C2: every ground rule expanded from a supported rule (AV or TE) whose
\* target is self has its target equal to its source, one rule per source
\* and class.
C2_SelfTarget ==
    (Mapped /\ TargetIsSelf(last.rule)) =>
        /\ \A k \in last.keys : k[3] = k[5]
        /\ LET b == get_rule_blocks(last.rule).blocks
           IN  Cardinality(last.keys) =
                   Len(expand_block(b[2], "type", <<>>).options)
                   * Len(expand_block(b[4], "class", <<>>).options)

\* C5: a non-sync line is attributed to the file F and the line N + k - 1,
\* where the most recent sync line of the text before it set F and N and the
\* line is the k-th non-sync line after it; sync lines are never counted,
\* also when two of them are adjacent.
C5_SyncAttribution ==
    (sync.seen /\ sync.k >= 1) =>
        /\ current_file = sync.file
        /\ current_line = sync.n + sync.k - 1

RutcReadWrite == <<"allow", " ", "d", " ", "t", ":", "file">>

\* C6: when a line holds the two rules "allow d t:file read;" and
\* "allow d t:file write;", both are mapped individually and attributed to
\* the file:line of that line: Mapping.lines has that file:line and
\* Mapping.rules["allow d t:file"] holds the two MappedRules, in that order.
C6_TwoRulesOnALine ==
    (pc = "running" /\ last.rule = TwoRulesLine) =>
        LET fl == FileLineStr(current_file, current_line)
        IN  /\ fl \in DOMAIN mapping_lines
            /\ RutcReadWrite \in DOMAIN mapping_rules
            /\ \E i, j \in DOMAIN mapping_rules[RutcReadWrite] :
                  /\ i < j
                  /\ mapping_rules[RutcReadWrite][i] =
                         [rule |-> AllowReadLine, fileline |-> fl]
                  /\ mapping_rules[RutcReadWrite][j] =
                         [rule |-> AllowWriteLine, fileline |-> fl]

\* C7: Mapping.lines is a multi-map: a rule string recorded under a
\* file:line stays recorded under it whatever is recorded later.
C7_LinesKeepEarlierRules ==
    [][\A fl \in DOMAIN mapping_lines :
          /\ fl \in DOMAIN mapping_lines'
          /\ mapping_lines'[fl] = mapping_lines[fl]]_vars

\* C8: when a supported rule cannot be expanded, get_mapping records
\* nothing for it, leaves Mapping.rules and Mapping.lines as they were and
\* goes on with the lines that follow.
C8_SkipsUnexpandable ==
    [][(last'.n # last.n /\ last'.err # "") =>
          /\ mapping_rules' = mapping_rules
          /\ mapping_lines' = mapping_lines
          /\ pc' = "running"]_vars

(***************************************************************************)
(* Properties of Mapper.expand_block (specification SpecBlock).            *)
(***************************************************************************)
\* A list of one-symbol words in strictly increasing string order
IsSortedList(q) ==
    \A i, j \in DOMAIN q : i < j => Rank(q[i][1]) < Rank(q[j][1])

\* The universe of a role
Universe(role, for_class) ==
    IF role = "type" THEN types
    ELSE IF role = "class" THEN DOMAIN classes
    ELSE classes[for_class[1]]

\* The names of the listed atoms with the given sign
Listed(atoms, neg) == {atoms[i].name : i \in {j \in DOMAIN atoms : atoms[j].neg = neg}}

\* The member types of the attributes among a set of names
Members(names) == UNION {attributes[n] : n \in names \cap DOMAIN attributes}

\* C3: on a complement block expand_block returns the sorted list of the
\* universe of the role minus exactly the listed atoms.
C3_ComplementBlock ==
    (blk_pc = "done" /\ blk_in.kind = "complement") =>
        /\ blk_out.err = ""
        /\ IsSortedList(blk_out.options)
        /\ {w[1] : w \in Range(blk_out.options)} =
               Universe(blk_in.role, blk_in.for_class) \ Listed(blk_in.atoms, FALSE)

\* A complement block that lists a type of the universe has been expanded
C3_Witness ==
    /\ blk_pc = "done"
    /\ blk_in.kind = "complement"
    /\ blk_in.role = "type"
    /\ Len(blk_in.atoms) = 2
    /\ Listed(blk_in.atoms, FALSE) = {"a", "b"}
    /\ blk_out.options = << <<"d">>, <<"t">> >>

\* C4: on a set block expand_block returns the sorted list of the positive
\* atoms (with the members of the positive attributes for role type) minus
\* the negative atoms (with the members of the subtracted attributes for
\* role type), whatever the order of the atoms inside the braces.
C4_SetBlock ==
    (blk_pc = "done" /\ blk_in.kind = "set") =>
        LET pos == Listed(blk_in.atoms, FALSE)
            neg == Listed(blk_in.atoms, TRUE)
            add == IF blk_in.role = "type" THEN pos \cup Members(pos) ELSE pos
            remove == IF blk_in.role = "type" THEN neg \cup Members(neg) ELSE neg
        IN  /\ blk_out.err = ""
            /\ IsSortedList(blk_out.options)
            /\ {w[1] : w \in Range(blk_out.options)} = add \ remove

\* A set block that subtracts a type before it adds the attribute the type
\* belongs to has been expanded
C4_Witness ==
    /\ blk_pc = "done"
    /\ blk_in.kind = "set"
    /\ blk_in.role = "type"
    /\ blk_in.atoms = <<[neg |-> TRUE, name |-> "a"], [neg |-> FALSE, name |-> "at"],
                        [neg |-> FALSE, name |-> "t"]>>
    /\ blk_out.options = << <<"at">>, <<"b">>, <<"t">> >>

(***************************************************************************)
(* Properties of SetFitter.fit (specification SpecFit).                    *)
(***************************************************************************)
WinnerNames == {x.name : x \in fit_out.winner}

\* S minus the union of the named macros
Extra(names) == fit_s \ UNION {fit_d[n] : n \in names}

\* names is a best cover of S among the non-empty subsets of full: no
\* subset leaves fewer permissions and none that leaves as many is smaller
BestCover(names, full) ==
    /\ names # {}
    /\ names \subseteq full
    /\ \A T \in SUBSET full \ {{}} :
          /\ Cardinality(Extra(names)) <= Cardinality(Extra(T))
          /\ Cardinality(Extra(T)) = Cardinality(Extra(names))
                => Cardinality(names) <= Cardinality(T)

\* C9 as stated: the winner is a best cover among the candidates whose every
\* element is in S, and is empty only when there is no such candidate.
C9_FullIsSubset ==
    fit_pc = "done" =>
        LET full == {n \in DOMAIN fit_d : fit_d[n] \subseteq fit_s}
        IN  IF full = {} THEN WinnerNames = {} ELSE BestCover(WinnerNames, full)

\* C9: the winner of fit(S) is a best cover of S among the non-empty
\* subsets of the full candidates, the non-empty candidates whose every
\* element is in S, and is empty only when there is no full candidate; for
\* r_file_perms and w_file_perms and S their union the winner is {r, w} and
\* leaves no extra permission.
C9_FitOptimal ==
    fit_pc = "done" =>
        LET full == {n \in DOMAIN fit_d : fit_d[n] # {} /\ fit_d[n] \subseteq fit_s}
        IN  /\ IF full = {} THEN WinnerNames = {} ELSE BestCover(WinnerNames, full)
            /\ (/\ fit_d = [r |-> r_file_perms, w |-> w_file_perms]
                /\ fit_s = r_file_perms \cup w_file_perms)
                   => WinnerNames = {"r", "w"} /\ Extra(WinnerNames) = {}

\* fit has covered the union of r and w, given r, w and a macro that is not
\* needed
C9_Witness ==
    /\ fit_pc = "done"
    /\ fit_d = [r |-> r_file_perms, w |-> w_file_perms, x |-> {"open"}]
    /\ fit_s = r_file_perms \cup w_file_perms
    /\ WinnerNames = {"r", "w"}

(***************************************************************************)
(* Properties of query_for_rule (specification SpecQuery).                 *)
(***************************************************************************)
\* The policy rule matches the placeholder rule
QueryMatches ==
    /\ q_in.r.target = "self" => q_in.x.source = q_in.x.target
    /\ q_in.x.rtype \in AVRULES => q_in.r.permset \subseteq q_in.x.perms

Kept == q_in.x \in Range(q_out)

\* The file of an origin lies under an ignore path
UnderIgnorePath(file) ==
    \E p \in FULL_IGNORE_PATHS : StartsWith(file, p \o <<"/">>)

\* The file:line string of an origin begins with an ignore path
BeginsWithIgnorePath(file) == \E p \in FULL_IGNORE_PATHS : StartsWith(file, p)

OriginSet == Range(q_in.origins)

\* C10 as stated: a matching AV rule with several origins is kept exactly
\* when the origins outside every ignore path contribute a superset of the
\* queried permission set, and a rule all of whose origins lie under an
\* ignore path is dropped.
C10_CoversQueried ==
    (q_pc = "done" /\ QueryMatches) =>
        /\ (q_in.x.rtype \in AVRULES /\ Len(q_in.origins) > 1) =>
              (Kept <=> q_in.r.permset \subseteq
                           UNION {o.perms : o \in {p \in OriginSet : ~UnderIgnorePath(p.file)}})
        /\ (\A o \in OriginSet : UnderIgnorePath(o.file)) => ~Kept

\* C10: a matching AV rule with several origins is kept exactly when the
\* origins whose file:line does not begin with an ignore path contribute a
\* superset of the permission set of the matched rule itself, and a rule
\* all of whose origins lie under an ignore path is dropped.
C10_CoversMatchedRule ==
    (q_pc = "done" /\ QueryMatches) =>
        /\ (q_in.x.rtype \in AVRULES /\ Len(q_in.origins) > 1) =>
              (Kept <=> q_in.x.perms \subseteq
                           UNION {o.perms : o \in {p \in OriginSet : ~BeginsWithIgnorePath(p.file)}})
        /\ (\A o \in OriginSet : UnderIgnorePath(o.file)) => ~Kept

\* A rule with an ignored and a non-ignored origin is dropped although the
\* non-ignored origin grants the queried permission
C10_Witness ==
    /\ q_pc = "done"
    /\ QueryMatches
    /\ q_in.x.rtype = "allow"
    /\ q_in.x.perms = {"read", "write"}
    /\ q_in.r.permset = {"write"}
    /\ q_in.origins = <<[file |-> IgnoredFile, perms |-> {"read"}],
                        [file |-> DeviceFile, perms |-> {"write"}]>>
    /\ ~Kept


(***************************************************************************)
(* Properties of ArgExtractor.extract (specification SpecExtract).         *)
(***************************************************************************)
\* The text of the policy rule that block i of the placeholder rule is
\* matched against
FieldText(rule, i) ==
    IF i = 2 THEN rule.source
    ELSE IF i = 3 THEN rule.target
    ELSE IF i = 4 THEN <<rule.tclass>>
    ELSE IF i = 5 /\ rule.ruletype = "type_transition" THEN rule.default
    ELSE IF i = 6 THEN rule.filename
    ELSE <<>>

\* The values matched at the placeholder positions of blocks i.. of the
\* placeholder rule, in the order of the positions
RECURSIVE MatchedValues(_, _, _)
MatchedValues(blocks, rule, i) ==
    IF i > Len(blocks) THEN <<>>
    ELSE (IF Compiled(blocks[i]) /\ MatchesPrefix(blocks[i], FieldText(rule, i))
          THEN Groups(blocks[i], FieldText(rule, i)) ELSE <<>>)
         \o MatchedValues(blocks, rule, i + 1)

\* C11: extract raises ValueError for every matching rule in which one argN
\* was matched with different values at several positions, and otherwise
\* returns exactly one value for each argN of the placeholder rule, the
\* value matched at its positions.
C11_ExtractInjective ==
    (ext_pc = "done"
     /\ match_rule(ArgExtractor(ext_in.placeholder), ext_in.rule).ok) =>
        LET names == ArgsOf(ext_in.placeholder)
            vals == MatchedValues(
                        ArgExtractor(ext_in.placeholder).regex_blocks,
                        ext_in.rule, 2)
        IN  IF \E i, j \in DOMAIN names : names[i] = names[j] /\ vals[i] # vals[j]
            THEN ext_out.err = "ValueError"
            ELSE /\ ext_out.err = ""
                 /\ DOMAIN ext_out.retdict = Range(names)
                 /\ \A i \in DOMAIN names : ext_out.retdict[names[i]] = vals[i]

(***************************************************************************)
(* Properties of the fitting loop and the de-duplication of te_macros.main *)
(* (specification SpecSug).                                                *)
(***************************************************************************)
\* The policy rules a suggestion matched, as strings
MatchedRules(s) == {s.rules_strings[r] : r \in DOMAIN s.rules_strings}

\* C12: the de-duplication discards a suggestion only if the set of policy
\* rules it matched is a strict subset of the set of policy rules matched
\* by another suggestion with an equal or greater score; a suggestion whose
\* matched rules are contained in no other suggestion's is never discarded.
C12_DedupBySubsetOfRules ==
    [][sg_pc = "dedup" =>
        \A x \in global_suggestions \ global_suggestions' :
            \E y \in global_suggestions :
                /\ MatchedRules(x) \subseteq MatchedRules(y)
                /\ MatchedRules(x) # MatchedRules(y)
                /\ ScoreLe(x.score, y.score)]_vars

\* Every suggestion the loop holds
AllSuggestions ==
    macro_suggestions \cup selected_suggestions \cup global_suggestions

\* score = (filled slots / placeholder rules) * (bound args / nargs)
ScoreIsProduct(s) ==
    s.score.n * (Len(s.macro.placeholder_rules) * s.macro.nargs)
        = Cardinality(DOMAIN s.rules) * Cardinality(DOMAIN s.args) * s.score.d

\* C13: the score of every suggestion is the ratio of filled placeholder
\* slots times the ratio of bound arguments and lies in [0,1], and the
\* accepted suggestions have a score of at least SUGGESTION_THRESHOLD.
C13_ScoreAndThreshold ==
    /\ \A s \in AllSuggestions :
          /\ ScoreIsProduct(s)
          /\ s.score.d > 0 /\ 0 <= s.score.n /\ s.score.n <= s.score.d
    /\ \A s \in selected_suggestions \cup global_suggestions :
          ScoreGe(s.score, SUGGESTION_THRESHOLD)

\* A suggestion was accepted while a forked one, partially filled, waits
C13_Witness ==
    /\ sg_pc = "fit"
    /\ \E s \in selected_suggestions : s.score.n = s.score.d /\ s.score.n > 0
    /\ \E t \in macro_suggestions : 0 < t.score.n /\ t.score.n < t.score.d

(***************************************************************************)
(* C14: across the calls of M4Macro.expand(args) with the right number of  *)
(* args on a macro of arity >= 1, a static macro has M4MacroExpander.expand*)
(* invoked at most once in total, and on a dynamic macro every call        *)
(* invokes it exactly once.                                                *)
(***************************************************************************)
RightArity(args) ==
    /\ args # PyNone
    /\ Len(args) = Len(MacroNamed(m4m.name).args)
    /\ Len(args) >= 1

C14_DriverCallsPerMacro ==
    [][(m4_n' = m4_n + 1 /\ RightArity(m4_last'.args))
       => /\ m4m'.expansion_static = "True" => m4_calls' <= 1
          /\ m4m'.expansion_static = "False" => m4_calls' = m4_calls + 1]_vars

(***************************************************************************)
(* C15: for a macro classified static and args of the right arity, what    *)
(* M4Macro.expand(args) returns equals the output of m4 on name(args...).  *)
(***************************************************************************)
C15_StaticEqualsM4 ==
    (/\ m4_n >= 1
     /\ m4m.expansion_static = "True"
     /\ RightArity(m4_last.args)
     /\ m4_last.err = "")
    => m4_last.ret = M4Run(CallText(m4m.name, m4_last.args))

(***************************************************************************)
(* C16: once the expander is torn down, after use or after a constructor   *)
(* aborted by a freeze file failure, its temporary file, its freeze file   *)
(* and the directory it created itself no longer exist.                    *)
(***************************************************************************)
C16_TeardownRemovesFiles ==
    drv.state = "gone"
    => /\ TmpPath(drv.tmpdir) \notin fs
       /\ FreezePath(drv.tmpdir) \notin fs
       /\ drv.tmpdir_managed => <<drv.tmpdir>> \notin fs

(***************************************************************************)
(* C17: __split_macro_usage_args__ splits only at the commas of the        *)
(* outermost level: on an argument string whose curly brackets, quotes and *)
(* parentheses are properly nested, the number of arguments is one more    *)
(* than the number of commas that are inside the outermost parentheses     *)
(* only, so (f(a, b), c) gives 2 arguments.                                *)
(***************************************************************************)
Opening == {"(", "{", "lquote"}

Closing == {")", "}", "rquote"}

Opener(c) == IF c = ")" THEN "(" ELSE IF c = "}" THEN "{" ELSE "lquote"

RECURSIVE ProperlyNested(_, _)
ProperlyNested(s, stack) ==
    IF s = <<>> THEN stack = <<>>
    ELSE IF Head(s) \in Opening
    THEN ProperlyNested(Tail(s), <<Head(s)>> \o stack)
    ELSE IF Head(s) \in Closing
    THEN /\ stack # <<>>
         /\ Head(stack) = Opener(Head(s))
         /\ ProperlyNested(Tail(s), Tail(stack))
    ELSE ProperlyNested(Tail(s), stack)

\* The nesting depth after the first i characters
DepthAt(s, i) ==
    Cardinality({k \in 1..i : s[k] \in Opening})
    - Cardinality({k \in 1..i : s[k] \in Closing})

WellNested(s) ==
    /\ ProperlyNested(s, <<>>)
    /\ \A i \in 1..(Len(s) - 1) : DepthAt(s, i) > 0

OuterCommas(s) ==
    Cardinality({i \in DOMAIN s : s[i] = "," /\ DepthAt(s, i) = 1})

C17_SplitAtOutermostCommas ==
    (sp_pc = "done" /\ WellNested(sp_in))
    => /\ ~sp_out.none
       /\ Len(sp_out.args) = 1 + OuterCommas(sp_in)

(***************************************************************************)
(* C19: MacroInPolicy.__init__ builds a macro call exactly when the        *)
(* catalog is non-empty, the file is given, the line is a non-negative     *)
(* integer, the name is a key of the catalog whose macro is not None and   *)
(* the number of args equals the arity of that macro; in every other case  *)
(* it raises M4MacroError, so a macro call that exists has as many args as *)
(* its macro has arguments.                                                *)
(***************************************************************************)
ValidUsage(in) ==
    /\ ~in.existing_macros.none
    /\ DOMAIN in.existing_macros.d # {}
    /\ ~in.file_used.none /\ in.file_used.v # ""
    /\ in.line_used.t = "int" /\ in.line_used.v >= 0
    /\ ~in.name.none
    /\ in.name.v \in DOMAIN in.existing_macros.d
    /\ ~in.existing_macros.d[in.name.v].none
    /\ ~in.args.none
    /\ Len(in.args.v) = in.existing_macros.d[in.name.v].nargs

C19_ConstructorChecks ==
    mc_pc = "done"
    => /\ mc_out.err = "" <=> ValidUsage(mc_in)
       /\ mc_out.err # "" => mc_out.err = "M4MacroError"
       /\ mc_out.err = "" => Len(mc_out.obj.args) = mc_out.obj.macro.nargs

C19_Witness ==
    /\ mc_pc = "done"
    /\ mc_out.err = ""
    /\ mc_out.obj.macro.name = "m2"
    /\ Len(mc_out.obj.args) = 2

(***************************************************************************)
(* C18: __find_macro_usages__ raises no exception, and on every line of    *)
(* the TE file it records a call for each valid usage and for no other:    *)
(* a usage with the wrong number of arguments or with a curly bracket, a   *)
(* quote or a parenthesis without its match is skipped, and the valid      *)
(* usages on later words and lines are still recorded.                     *)
(***************************************************************************)
\* The line without its comment
CodeLine(line) ==
    IF Strip(line, {" "}) # <<>> /\ Head(Strip(line, {" "})) = "#" THEN <<>>
    ELSE Strip(BeforeHash(Strip(line, {" "})), {" "})

\* The macro name at position p is followed by an argument list that is
\* properly nested and has the macro's number of arguments, or opens a
\* quoted block that goes on after the line
ValidUsageAt(line, p) ==
    \/ \E k \in (p + 2)..Len(line) :
          /\ WellNested(SubSeq(line, p + 1, k))
          /\ 1 + OuterCommas(SubSeq(line, p + 1, k)) = TeCatalog[line[p]].nargs
    \/ /\ Len(line) = p + 2
       /\ line[p + 1] = "(" /\ line[p + 2] = "lquote"

ValidUsagesOn(line) ==
    Cardinality({p \in DOMAIN line :
                    line[p] \in DOMAIN TeCatalog /\ ValidUsageAt(line, p)})

RecordedOn(i) ==
    Cardinality({k \in DOMAIN macro_usages : macro_usages[k].line_used = i})

C18_InvalidUsagesSkipped ==
    te_pc \in {"done", "raised"}
    => /\ te_err = ""
       /\ \A i \in DOMAIN te_lines :
             RecordedOn(i) = ValidUsagesOn(CodeLine(te_lines[i]))

(***************************************************************************)
(* C20: in risk mode the score of an AV rule that shares a permission with *)
(* some permission bucket is (the risk score of the bucket of its source + *)
(* the capability score of its class when the class is a capability class, *)
(* the risk score of the bucket of its target otherwise) times the largest *)
(* coefficient among the permission buckets that share a permission with   *)
(* it, divided by MAXIMUM_SCORE, and the rule is reported iff that value   *)
(* is >= SCORE_THRESHOLD; source and target buckets of 30 each with a      *)
(* perms_high permission give 1.                                           *)
(***************************************************************************)
IsScoredAv(e) ==
    /\ e.rule.rtype \in {<<x>> : x \in AVRULES}
    /\ PermScores(e.rule) # {}

\* The sum of the claim, times coefficient c, over MAXIMUM_SCORE
ClaimedScore(rule, c) ==
    Fr((FrAdd(BucketRisk(rule.source),
              IF rule.tclass[1] \in CAPABILITIES THEN SCORE[rule.tclass[1]]
              ELSE BucketRisk(rule.target)).n) * c.n,
       c.d * MAXIMUM_SCORE)

Reported(e) == \E k \in DOMAIN printouts : printouts[k].r = e.r

BucketsOf(type) == {crit \in DOMAIN tr_types : type \in tr_types[crit]}

\* The term of a bucket at the position of the source (1) or the target (2)
TrustTerm(pos, crit) ==
    IF (pos = 1 /\ tr_system \in {"trust_hl", "trust_hh"})
       \/ (pos = 2 /\ tr_system \in {"trust_lh", "trust_hh"})
    THEN SCORE_TRUST[crit]
    ELSE Inverted(crit)

C21_OneTermEach ==
    (/\ tr_pc = "done"
     /\ tr_system # "risk"
     /\ BucketsOf(tr_rule.source) # {}
     /\ BucketsOf(tr_rule.target) # {})
    => \E bs \in BucketsOf(tr_rule.source), bt \in BucketsOf(tr_rule.target) :
          FrEq(tr_score,
               Fr(FrAdd(TrustTerm(1, bs), TrustTerm(2, bt)).n,
                  FrAdd(TrustTerm(1, bs), TrustTerm(2, bt)).d * MAXIMUM_SCORE))

(***************************************************************************)
(* C22: every rule listed in NEVERALLOWS is enforced.  For each listed     *)
(* rule and each ground rule of its expansion, if the union of the         *)
(* permissions of the allow rules mapped under the same source, target and *)
(* class meets the permission set of the neverallow rule, main reports     *)
(* that source/target/class, also when several listed rules expand to the  *)
(* same source/target/class.                                               *)
(***************************************************************************)
\* The pairs <<allow RUTC, neverallowed permissions>> of the listed rules
ListedGround ==
    UNION {{<<DropFive(kv[1]), rule_factory(kv[2]).rule.permset>> :
                kv \in expand_rule(neverallows[i]).rules} :
           i \in DOMAIN neverallows}

C22_EveryNeverallowEnforced ==
    nv_pc = "done"
    => \A g \in ListedGround :
          (/\ g[1] \in DOMAIN nv_mapping
           /\ AllowedPerms(nv_mapping[g[1]]) \cap g[2] # {})
          => \E rep \in nv_reports : rep.rutc = g[1]

(***************************************************************************)
(* C23: for an allow RUTC of class C with REQUIRED_PERMS[C] = (SET1, SET2, *)
(* ADD) and no origin under an ignored path, the rule is reported iff its  *)
(* accumulated permissions hold a permission of SET1, do not hold all of   *)
(* SET2, and it is not the case that for every class K of ADD the          *)
(* permissions accumulated for the same source and target with class K     *)
(* hold all of ADD[K]: a rule granting file write without open is not      *)
(* reported when the same source and target are granted fd use.            *)
(***************************************************************************)
\* The permissions granted by the rules mapped under a RUTC
GrantedUnder(k) ==
    IF k \in DOMAIN rq_mapping
    THEN UNION {Range(Split(Strip(SubSeq(rq_mapping[k][i].rule, Len(k) + 1,
                                         Len(rq_mapping[k][i].rule)),
                                  {" ", "{", "}", ";"}))) :
                i \in DOMAIN rq_mapping[k]}
    ELSE {}

ClassOf(k) == SubSeq(k, Find(k, ":") + 1, Len(k))

WithClass(k, cls) == SubSeq(k, 1, Find(k, ":")) \o cls

C23_ReportedIffUnnecessary ==
    rq_pc = "done"
    => \A k \in DOMAIN rq_mapping :
          (/\ StartsWith(k, Allow_)
           /\ ClassOf(k) \in DOMAIN REQUIRED_PERMS
           /\ \A i \in DOMAIN rq_mapping[k] :
                 ~UnderIgnoredPath(rq_mapping[k][i].fileline))
          => (k \in rq_reports
              <=> /\ GrantedUnder(k) \cap REQUIRED_PERMS[ClassOf(k)][1] # {}
                  /\ ~(REQUIRED_PERMS[ClassOf(k)][2] \subseteq GrantedUnder(k))
                  /\ ~(\A cls \in DOMAIN REQUIRED_PERMS[ClassOf(k)][3] :
                          REQUIRED_PERMS[ClassOf(k)][3][cls]
                              \subseteq GrantedUnder(WithClass(k, cls))))

(***************************************************************************)
(* C24: for a policy rule that matches the first rule of a tuple of        *)
(* RULES_TUPLES, a later supported rule of the tuple, its placeholders     *)
(* substituted, is reported as missing iff it is not present in the        *)
(* policy: an AV rule is present when its permissions are a subset of the  *)
(* union of the permissions mapped under its RUTC, a TE rule when an       *)
(* identical rule is mapped under its RUTC.                                *)
(***************************************************************************)
NecRule(i) == substitute_args(ut_tuple[i], TupleArgs)

PresentInPolicy(nec) ==
    LET k == rule_split_after_class(nec).rutc
    IN /\ k \in DOMAIN ut_mapping
       /\ IF nec[1] \in AVRULES
          THEN rule_factory(nec).rule.permset
                  \subseteq UNION {rule_factory(ut_mapping[k][j].rule).rule.permset :
                                      j \in DOMAIN ut_mapping[k]}
          ELSE \E j \in DOMAIN ut_mapping[k] : ut_mapping[k][j].rule = nec

ReportedMissing(nec) == \E j \in DOMAIN missing_rules : missing_rules[j].rule = nec

C24_MissingIffAbsent ==
    ut_pc = "done"
    => \A i \in 2..Len(ut_tuple) :
          ut_tuple[i][1] \in ONLY_MAP_RULES
          => (ReportedMissing(NecRule(i)) <=> ~PresentInPolicy(NecRule(i)))

(***************************************************************************)
(* C25: while get_rule_blocks scans a rule the nesting level of the curly  *)
(* brackets is never negative: a closing bracket without its opening one,  *)
(* or unequal numbers of brackets, raise ValueError.  Every block emitted  *)
(* holds at most one opening and one closing bracket: brackets nested in   *)
(* another pair are dropped and their content goes to the enclosing block. *)
(***************************************************************************)
\* The nesting depth after the first n symbols of a text
DepthAfter(s, n) ==
    Count(SubSeq(s, 1, n), "{") - Count(SubSeq(s, 1, n), "}")

\* The names of a text, in order
RECURSIVE NamesIn(_)
NamesIn(s) ==
    IF s = <<>> THEN <<>>
    ELSE IF Head(s) \in {" ", "{", "}", "~", ":", ";"} THEN NamesIn(Tail(s))
    ELSE <<Head(s)>> \o NamesIn(Tail(s))

RECURSIVE Concat(_)
Concat(ss) == IF ss = <<>> THEN <<>> ELSE Head(ss) \o Concat(Tail(ss))

OneBracketPair(blocks) ==
    \A i \in DOMAIN blocks : Count(blocks[i], "{") <= 1 /\ Count(blocks[i], "}") <= 1

C25_NestingFlattened ==
    /\ gs_st.nest_lvl >= 0
    /\ OneBracketPair(gs_st.blocks) /\ Count(gs_st.block, "{") <= 1
    /\ OneBracketPair(gs_out)
    /\ gs_pc \in {"scan", "done"}
       => /\ Count(gs_rule, "{") = Count(gs_rule, "}")
          /\ \A n \in 0..(Len(gs_rule) - Len(gs_chars)) : DepthAfter(gs_rule, n) >= 0
    /\ (gs_pc = "done" /\ Count(gs_rule, "~") = 0)
       => NamesIn(Concat(gs_out)) = NamesIn(gs_rule)

\* A rule with a bracket pair nested in another was scanned to the end
C25_Witness ==
    /\ gs_pc = "done"
    /\ \E n \in 1..Len(gs_rule) : DepthAfter(gs_rule, n) = 2
    /\ \E i \in DOMAIN gs_out : gs_out[i] = <<"{", "a", "}">>

(***************************************************************************)
(* C26: the round trip of the tokenization.  For every valid ground AV     *)
(* rule R, the blocks of get_rule_blocks(R) joined as                      *)
(* "rtype source target:class perms;" and tokenized again give the same    *)
(* blocks, and the AVRule built from them has the RUTC and the permission  *)
(* set of R.                                                               *)
(***************************************************************************)
\* The permissions written in R: the names after the class
WrittenPerms ==
    LET after == SubSeq(rt_rule, Find(rt_rule, "file") + 1, Len(rt_rule))
    IN {<<after[i]>> : i \in {j \in DOMAIN after : after[j] \in {"read", "write"}}}

C26_TokenRoundTrip ==
    rt_pc = "done"
    => /\ rt_again.err = ""
       /\ rt_again.blocks = rt_first.blocks
       /\ up_to_class(rt_again.rule) = <<"allow", " ", "a", " ", "b", ":", "file">>
       /\ up_to_class(rt_again.rule) = up_to_class(rt_first.rule)
       /\ rt_again.rule.permset = WrittenPerms
       /\ rt_again.rule.permset = rt_first.rule.permset

(***************************************************************************)
(* C27: the fitting loop of te_macros terminates for every macro and every *)
(* list of candidate rules.  A suggestion leaves the work set when it is   *)
(* popped, a forked suggestion is queued only if its usage string has not  *)
(* been tried before (and is then recorded as tried), the tried usages     *)
(* only grow while a macro is fitted, and the work set becomes empty for   *)
(* every macro: main reaches its end.                                      *)
(***************************************************************************)
\* A step of the loop "while macro_suggestions"
FitStep == sg_pc = "fit" /\ sg_pc' = "fit" /\ sg_k' = sg_k

QueuedOnlyUntried ==
    FitStep
    => /\ tried_usages \subseteq tried_usages'
       /\ \A s \in macro_suggestions' \ macro_suggestions :
             usage(s) \notin tried_usages /\ usage(s) \in tried_usages'
       /\ \E s \in macro_suggestions : s \notin macro_suggestions'

C27_FitTerminates ==
    /\ [][QueuedOnlyUntried]_vars
    /\ <>(sg_pc = "done")
    /\ [](sg_pc = "fit" => <>(sg_pc = "fit" /\ macro_suggestions = {}))

\* The loop ended after a fork had been queued and popped
C27_Witness ==
    /\ sg_pc = "done"
    /\ Cardinality(tried_usages) >= 2
    /\ macro_suggestions = {}

(***************************************************************************)
(* Properties of the fit cache of global_macros (specification SpecGlobal). *)
(***************************************************************************)
\* The winner SetFitter.fit returns for the permission set of RUTC i
FreshWinner(i) == fit(macroset_dict, macroset_order, GmPermset(gm_rules[i])).winner

\* C28: the fit cached for a permission set is never altered after it is
\* stored: every RUTC fitted receives the winner SetFitter.fit returns for
\* its permission set, and the cache holds that winner for every set in it.
C28_CachedFitUnaltered ==
    /\ \A i \in DOMAIN gm_winner : gm_winner[i] = FreshWinner(i)
    /\ \A i \in DOMAIN gm_winner :
          cached_fits[GmPermset(gm_rules[i])].winner = FreshWinner(i)

(***************************************************************************)
(* Properties of a block and its complement (specification SpecPair).      *)
(***************************************************************************)
OptionNames(out) == {w[1] : w \in Range(out.options)}

\* C29: for role type and a block B without subtraction, expand_block(~B)
\* and expand_block(B) have no name in common and together cover the type
\* universe; the complement of an attribute has none of its member types.
C29_ComplementDisjoint ==
    cb_pc = "done" =>
        /\ cb_neg.err = "" /\ cb_pos.err = ""
        /\ OptionNames(cb_neg) \cap OptionNames(cb_pos) = {}
        /\ types \subseteq OptionNames(cb_neg) \cup OptionNames(cb_pos)
        /\ OptionNames(cb_neg) \cap Members(Listed(cb_in.atoms, FALSE)) = {}

(***************************************************************************)
(* Properties of the rules ArgExtractor accepts (specification            *)
(* SpecExtract).                                                           *)
(***************************************************************************)
\* A block of the placeholder rule with the values of retdict put in the
\* place of its placeholders
RECURSIVE Instantiate(_, _)
Instantiate(blk, retdict) ==
    IF blk = <<>> THEN <<>>
    ELSE (IF Head(blk) \in Placeholders /\ ArgName(Head(blk)) \in DOMAIN retdict
          THEN retdict[ArgName(Head(blk))]
          ELSE <<Head(blk)>>)
         \o Instantiate(Tail(blk), retdict)

\* The blocks of the placeholder rule that hold a source, a target, a class
\* or a default type
TypeFields(rule) == IF rule.ruletype = "type_transition" THEN 2..5 ELSE 2..4

\* C30: extract returns bindings only when putting them in the place of the
\* placeholders of the placeholder rule gives the source, target, class and
\* default type of the candidate rule exactly; a candidate whose field only
\* begins with text that matches the pattern is rejected.
C30_BindingsReproduceRule ==
    (ext_pc = "done" /\ ext_out.err = "") =>
        \A i \in TypeFields(ext_in.rule) :
            Instantiate(rule_parser(ext_in.placeholder).blocks[i], ext_out.retdict)
                = FieldText(ext_in.rule, i)

=========================================================================
